---- MODULE Spec2Model ----
(***************************************************************************)
(* A model of the OasisLMF command layer: option resolution                *)
(* (utils/conf.py, cmd/base.py), the generate-losses command               *)
(* (cmd/model.py), the keys lookup service (keys/server.py) and the        *)
(* model-api test command (cmd/test.py).                                   *)
(*                                                                         *)
(* Each part has its own specification (SpecConf, SpecLosses, SpecServer,  *)
(* SpecApi) over the shared variables; the parts that a specification does *)
(* not exercise stay in their idle values.                                 *)
(***************************************************************************)
EXTENDS Integers, Sequences, FiniteSets, TLC

VARIABLES
    cIn,      \* conf: the inputs of the construction (arguments, environment, file)
    cObj,     \* conf: the OasisLmfConf object, or what its construction raised
    cCall,    \* conf: the arguments of the last get() call
    cRes,     \* conf: the outcome of the last get() call
    glIn,     \* generate-losses: the command line, the configuration file, the file system
    glPc,     \* generate-losses: where GenerateLossesCmd.action stands
    glVals,   \* generate-losses: the option values the action resolved
    glRunDir, \* generate-losses: the run directory in use
    glLog,    \* generate-losses: what the action did to the outside, in order
    glDisk,   \* generate-losses: the run directory on disk (exists, its entries)
    glExc,    \* generate-losses: the exception that ended the action, or "none"
    svEnv,    \* server: what init() finds outside the module
    svPhase,  \* server: "unloaded", "serving" or "import_error"
    svG,      \* server: the module-level variables
    svInitExc, \* server: the exception that ended init(), or "none"
    svRoutes, \* server: the routes registered on APP
    svReq,    \* server: the last request
    svRv,     \* server: what the view function returned for it
    svCalled, \* server: whether the resolver was called for it
    svResp,   \* server: the response sent for it
    apIn,     \* model-api: the command line and what the action finds outside
    apPc,     \* model-api: where TestModelApiCmd.action stands
    apTries,  \* model-api: the health check attempts made
    apHealthy, \* model-api: whether an attempt was answered
    apLog,    \* model-api: what the action did, in order
    apCounter, \* model-api: the Counter of completed and failed analyses
    apTasks,  \* model-api: the state of each task of the pool
    apExc,    \* model-api: the exception that ended the action, or "none"
    apReturn, \* model-api: the action's return value, -1 while it has none
    gofIn,    \* generate-oasis-files: the command line, the file, what exists
    gofPc,    \* generate-oasis-files: where the action stands
    gofVals,  \* generate-oasis-files: the option values it resolved
    gofLog,   \* generate-oasis-files: its effects, in order
    gofExc,   \* generate-oasis-files: the exception that ended it, or "none"
    rnIn,     \* run: the command line, the file, what exists
    rnArgs,   \* run: args, which the action extends
    rnPc,     \* run: where RunCmd.action stands
    rnRunDir, \* run: the run directory
    rnLog,    \* run: its effects, in order
    rnExc,    \* run: the exception that ended it, or "none"
    gkIn,     \* generate-keys: the command line, the file, what exists, the model
    gkPc,     \* generate-keys: where the action stands
    gkVals,   \* generate-keys: the option values it resolved
    gkName,   \* generate-keys: the default output file name
    gkPath,   \* generate-keys: the output file path
    gkLog,    \* generate-keys: its effects, in order
    gkExc,    \* generate-keys: the exception that ended it, or "none"
    plIn,     \* plan: the number of processes and whether insured loss is on
    plPc,     \* plan: generated, running, done
    plPlan,   \* plan: its pipes and stages, and what each stage writes and reads
    plMade,   \* plan: the pipes created
    plLaunched, \* plan: the stages launched
    plBuf,    \* plan: the items each pipe holds
    plSent    \* plan: the events the fan-out has written to each pipe

confVars == <<cIn, cObj, cCall, cRes>>

glVars == <<glIn, glPc, glVals, glRunDir, glLog, glExc, glDisk>>

svVars == <<svEnv, svPhase, svG, svInitExc, svRoutes, svReq, svRv, svCalled, svResp>>

apVars == <<apIn, apPc, apTries, apHealthy, apLog, apCounter, apTasks, apExc, apReturn>>

gofVars == <<gofIn, gofPc, gofVals, gofLog, gofExc>>

rnVars == <<rnIn, rnArgs, rnPc, rnRunDir, rnLog, rnExc>>

gkVars == <<gkIn, gkPc, gkVals, gkName, gkPath, gkLog, gkExc>>

plVars == <<plIn, plPc, plPlan, plMade, plLaunched, plBuf, plSent>>

vars == <<cIn, cObj, cCall, cRes, glIn, glPc, glVals, glRunDir, glLog, glExc, glDisk,
          svEnv, svPhase, svG, svInitExc, svRoutes, svReq, svRv, svCalled, svResp,
          apIn, apPc, apTries, apHealthy, apLog, apCounter, apTasks, apExc, apReturn,
          gofIn, gofPc, gofVals, gofLog, gofExc,
          rnIn, rnArgs, rnPc, rnRunDir, rnLog, rnExc,
          gkIn, gkPc, gkVals, gkName, gkPath, gkLog, gkExc,
          plIn, plPc, plPlan, plMade, plLaunched, plBuf, plSent>>

----------------------------------------------------------------------------
(* Python values.  Every value is a record of one shape so that any two    *)
(* can be compared: None, a bool, or a str read as a path (absolute or     *)
(* relative, with its components).  "absent" marks a key a dict lacks.     *)

PyNone == [t |-> "None", abs |-> FALSE, parts |-> <<>>]

PyBool(b) == [t |-> "bool", abs |-> FALSE, parts |-> <<IF b THEN "True" ELSE "False">>]

PyStr(isabs, parts) == [t |-> "str", abs |-> isabs, parts |-> parts]

Absent == [t |-> "absent", abs |-> FALSE, parts |-> <<>>]

\* dict.get(name, None)
DictGet(d, name) == IF name \in DOMAIN d /\ d[name] # Absent THEN d[name] ELSE PyNone

\* name in dict
DictHas(d, name) == name \in DOMAIN d /\ d[name] # Absent

\* bool(value): None, False and '' are falsy
Truthy(v) ==
    /\ v.t # "None"
    /\ v.t # "absent"
    /\ ~(v.t = "bool" /\ v.parts = <<"False">>)
    /\ ~(v.t = "str" /\ ~v.abs /\ v.parts = <<>>)

\* os.getcwd()
Cwd == <<"cwd">>

\* os.path.isabs(p)
IsAbs(p) == p.abs

\* os.path.join(a, b): an absolute b discards a
Join(a, b) == IF b.abs THEN b ELSE PyStr(a.abs, a.parts \o b.parts)

\* os.path.abspath(p): a relative p is taken from the working directory
AbsPath(p) == IF p.abs THEN p ELSE PyStr(TRUE, Cwd \o p.parts)

\* os.path.dirname(p): p without its last component
DirName(p) ==
    IF Len(p.parts) = 0 THEN p
    ELSE PyStr(p.abs, SubSeq(p.parts, 1, Len(p.parts) - 1))

----------------------------------------------------------------------------
(* utils/conf.py: OasisLmfConf                                             *)

\* The option names of the lookups.
Names == {"opt", "other"}

\* What a command line or a configuration file can hold for "opt".
OptValues == {Absent, PyNone, PyBool(FALSE), PyStr(FALSE, <<"rel">>), PyStr(TRUE, <<"abs">>)}

OtherValues == {Absent, PyStr(FALSE, <<"rel2">>)}

Dicts == {[n \in Names |-> IF n = "opt" THEN a ELSE b] : a \in OptValues, b \in OtherValues}

\* {}
EmptyDict == [n \in {} |-> Absent]

\* The default of a get() call.
Defaults == {PyNone, PyBool(FALSE), PyStr(FALSE, <<"dflt">>), PyStr(TRUE, <<"adflt">>)}

\* The conf_path argument: None (the lookup service), or the --config value.
ConfPaths == {PyNone, PyStr(FALSE, <<"oasislmf.json">>), PyStr(TRUE, <<"etc", "oasislmf.json">>)}

\* os.environ.get('OASIS_LMF_CONFIG_FILE', 'oasislmf.json')
EnvConfigFile(env) == IF env = Absent THEN PyStr(FALSE, <<"oasislmf.json">>) ELSE env

EnvValues == {Absent, PyStr(TRUE, <<"env", "conf.json">>)}

\* The file at the configuration path: missing, not JSON, or a JSON object.
FileStates == {[exists |-> FALSE, json |-> FALSE, content |-> EmptyDict],
               [exists |-> TRUE, json |-> FALSE, content |-> EmptyDict]}
              \cup {[exists |-> TRUE, json |-> TRUE, content |-> d] : d \in Dicts}

NoConf == [exc |-> "unbuilt", conf_path |-> PyNone, overrides |-> EmptyDict,
           config |-> EmptyDict, config_dir |-> PyNone]

\* OasisLmfConf.__init__(overrides, conf_path)
OasisLmfConf_init(overrides, conf_path, env, file) ==
    LET self_conf_path == IF Truthy(conf_path) THEN conf_path ELSE EnvConfigFile(env)
        self_overrides == overrides
    IN  IF conf_path.t # "str"
        THEN \* os.path.dirname(conf_path) of the argument, not of self.conf_path
             [NoConf EXCEPT !.exc = "TypeError", !.conf_path = self_conf_path,
                            !.overrides = self_overrides]
        ELSE IF file.exists /\ ~file.json
        THEN [NoConf EXCEPT !.exc = "ValueError", !.conf_path = self_conf_path,
                            !.overrides = self_overrides,
                            !.config_dir = DirName(conf_path)]
        ELSE [exc |-> "none", conf_path |-> self_conf_path, overrides |-> self_overrides,
              config |-> IF file.exists THEN file.content ELSE EmptyDict,
              config_dir |-> DirName(conf_path)]

\* get, lines 114-119: the command line first, then the configuration file
LookupValue_ConfigFirst(self, name) ==
    IF DictHas(self.config, name) THEN self.config[name]
    ELSE DictGet(self.overrides, name)

LookupValue(self, name) ==
    LET cmd_value == DictGet(self.overrides, name)
    IN  IF cmd_value # PyNone THEN cmd_value
        ELSE IF DictHas(self.config, name) THEN self.config[name]
        ELSE PyNone

\* get, line 121: the required check comes before the default is applied
RequiredMissing_Always(required, value) == value = PyNone

RequiredMissing(required, value) == required /\ value = PyNone

\* get, lines 129-131: a path value is taken relative to the configuration file
ResolvePath_Joined(self, value) == Join(self.config_dir, value)

ResolvePath(self, value) ==
    LET p == Join(self.config_dir, value)
    IN  IF ~IsAbs(value) THEN AbsPath(p) ELSE p

\* OasisLmfConf.get(name, default, required, is_path)
get(self, name, default, required, is_path) ==
    LET value1 == LookupValue(self, name)
    IN  IF RequiredMissing(required, value1)
        THEN [exc |-> "OasisException", value |-> PyNone]
        ELSE LET value2 == IF value1 = PyNone THEN default ELSE value1
             IN  IF is_path /\ value2 # PyNone
                 THEN IF value2.t # "str"
                      THEN \* os.path.join of a non-string
                           [exc |-> "TypeError", value |-> PyNone]
                      ELSE [exc |-> "none", value |-> ResolvePath(self, value2)]
                 ELSE [exc |-> "none", value |-> value2]

NoCall == [name |-> "opt", default |-> PyNone, required |-> FALSE, is_path |-> FALSE,
           made |-> FALSE]

NoRes == [exc |-> "none", value |-> PyNone]

ConfInit ==
    /\ cIn \in [overrides : Dicts, conf_path : ConfPaths, env : EnvValues, file : FileStates]
    /\ cObj = NoConf
    /\ cCall = NoCall
    /\ cRes = NoRes

ConfIdle ==
    /\ cIn = [overrides |-> EmptyDict, conf_path |-> PyNone, env |-> Absent,
              file |-> [exists |-> FALSE, json |-> FALSE, content |-> EmptyDict]]
    /\ cObj = NoConf
    /\ cCall = NoCall
    /\ cRes = NoRes

\* InputValues(args) / OasisLmfConf(...): the construction
Construct ==
    /\ cObj.exc = "unbuilt"
    /\ cObj' = OasisLmfConf_init(cIn.overrides, cIn.conf_path, cIn.env, cIn.file)
    /\ UNCHANGED <<cIn, cCall, cRes>>
    /\ UNCHANGED <<glVars, svVars, apVars, gofVars, rnVars, gkVars, plVars>>

\* A call of get on the constructed object
Get ==
    /\ cObj.exc = "none"
    /\ \E name \in Names, default \in Defaults, required \in BOOLEAN, is_path \in BOOLEAN :
          /\ cCall' = [name |-> name, default |-> default, required |-> required,
                       is_path |-> is_path, made |-> TRUE]
          /\ cRes' = get(cObj, name, default, required, is_path)
    /\ UNCHANGED <<cIn, cObj>>
    /\ UNCHANGED <<glVars, svVars, apVars, gofVars, rnVars, gkVars, plVars>>

ConfNext == Construct \/ Get

----------------------------------------------------------------------------
(* cmd/model.py: GenerateLossesCmd                                         *)

\* The options GenerateLossesCmd.action looks up.
GLNames == {"oasis_files_path", "model_run_dir_path", "analysis_settings_json_file_path",
            "model_data_path", "ktools_script_name", "no_execute"}

\* The paths whose existence the action depends on.
GLPaths == {"oasis_files_path", "model_run_dir_path", "analysis_settings_json_file_path",
            "model_data_path"}

\* add_args: the default of --ktools-num-processes
DefaultNumProcesses == -1

\* A --ktools-num-processes given on the command line.
GivenNumProcesses == 2

\* The value an option has when it is given, on the command line or in the file.
GLGiven(name) ==
    IF name = "no_execute" THEN PyBool(TRUE)
    ELSE IF name = "ktools_script_name" THEN PyStr(FALSE, <<"myscript">>)
    ELSE PyStr(FALSE, <<name>>)

\* add_args: what argparse leaves for an option that is not given
GLArgDefault(name) == IF name = "no_execute" THEN PyBool(FALSE) ELSE PyNone

\* The command lines: which options are given.
GLArgs(given) == [n \in GLNames |-> IF n \in given THEN GLGiven(n) ELSE GLArgDefault(n)]

\* The configuration files: which options are set.
GLConfig(set) == [n \in GLNames |-> IF n \in set THEN GLGiven(n) ELSE Absent]

\* The --config value: its default, './oasislmf.json'
GLConfigArg == PyStr(FALSE, <<"oasislmf.json">>)

\* cleaners.as_path(value, name, preexists) applied to the outcome of a get
as_path(r, preexists, exists) ==
    IF r.exc # "none" THEN r
    ELSE IF ~Truthy(r.value) THEN [exc |-> "none", value |-> PyNone]
    ELSE IF preexists /\ ~exists THEN [exc |-> "OasisException", value |-> PyNone]
    ELSE [exc |-> "none", value |-> AbsPath(r.value)]

\* The first exception of a sequence of outcomes, in program order.
FirstExc(rs) ==
    IF \E i \in 1..Len(rs) : rs[i].exc # "none"
    THEN rs[CHOOSE i \in 1..Len(rs) :
                /\ rs[i].exc # "none"
                /\ \A j \in 1..(i - 1) : rs[j].exc = "none"].exc
    ELSE "none"

\* GenerateLossesCmd.action, lines 317-330: the option values
GLInputs(in) ==
    LET inputs == OasisLmfConf_init(in.args, GLConfigArg, Absent, in.file)
        ex(n) == in.exists[n]
        ofp == as_path(get(inputs, "oasis_files_path", PyNone, TRUE, TRUE),
                       TRUE, ex("oasis_files_path"))
        mrd == as_path(get(inputs, "model_run_dir_path", PyNone, FALSE, TRUE),
                       FALSE, ex("model_run_dir_path"))
        asj == as_path(get(inputs, "analysis_settings_json_file_path", PyNone, TRUE, TRUE),
                       TRUE, ex("analysis_settings_json_file_path"))
        mdp == as_path(get(inputs, "model_data_path", PyNone, TRUE, TRUE),
                       TRUE, ex("model_data_path"))
        ksn == get(inputs, "ktools_script_name", PyStr(FALSE, <<"run_ktools">>), FALSE, FALSE)
        nox == get(inputs, "no_execute", PyBool(FALSE), FALSE, FALSE)
    IN  [exc |-> IF inputs.exc # "none" THEN inputs.exc
                 ELSE FirstExc(<<ofp, mrd, asj, mdp, ksn, nox>>),
         oasis_files_path |-> ofp.value,
         model_run_dir_path |-> mrd.value,
         analysis_settings_json_file_path |-> asj.value,
         model_data_path |-> mdp.value,
         ktools_script_name |-> ksn.value,
         no_execute |-> nox.value]

NoVals == [exc |-> "none", oasis_files_path |-> PyNone, model_run_dir_path |-> PyNone,
           analysis_settings_json_file_path |-> PyNone, model_data_path |-> PyNone,
           ktools_script_name |-> PyNone, no_execute |-> PyNone]

\* lines 333-334: the timestamped run directory under the working directory
DefaultRunDir_Cwd == PyStr(TRUE, Cwd)

DefaultRunDir == PyStr(TRUE, Cwd \o <<"runs", "ProgOasis-utcnow">>)

\* line 371: os.path.join(model_run_dir_path, '{}.sh'.format(ktools_script_name))
ScriptPath(run_dir, script_name) ==
    Join(run_dir, PyStr(script_name.abs, script_name.parts \o <<".sh">>))

\* line 372: the branch that runs the engine
ExecuteBranch_Always(no_execute) == TRUE

ExecuteBranch(no_execute) == ~Truthy(no_execute)

Ev(op, path, n) == [op |-> op, path |-> path, n |-> n]

\* The five subdirectories of a run directory.
CanonicalSubdirs == {"fifo", "input", "output", "static", "work"}

\* What a run directory that is already there can hold.
PriorEntries == {{}, {"earlier_output.csv"}, {"earlier_output.csv", "input", "output"}}

\* prepare_model_run_directory(run_dir, oasis_files, settings, model_data): the
\* subdirectories are made where absent, the settings file is copied into the
\* root, nothing that is there is removed
prepare_model_run_directory(disk) ==
    [disk EXCEPT !.entries = @ \cup CanonicalSubdirs \cup {"analysis_settings.json"}]

\* lines 341-349: the step that follows the creation of the run directory
AfterMakeRunDir_Binary == "binary"

AfterMakeRunDir == "prepare"

GLInit ==
    /\ glIn \in {[args |-> GLArgs(given),
                  file |-> [exists |-> fileExists, json |-> TRUE,
                            content |-> IF fileExists THEN GLConfig(set) ELSE GLConfig({})],
                  num_processes |-> np,
                  exists |-> [n \in GLPaths |-> n # missing],
                  settings_ok |-> sok,
                  has_toggle |-> sok /\ toggle] :
                 given \in {GLNames \ {"no_execute"},
                            GLNames \ {"ktools_script_name"},
                            GLNames \ {"model_run_dir_path", "no_execute"},
                            GLNames \ {"oasis_files_path", "no_execute"},
                            GLNames \ {"analysis_settings_json_file_path"},
                            GLNames \ {"model_data_path", "ktools_script_name"}},
                 fileExists \in BOOLEAN,
                 set \in {{"oasis_files_path"}, {"no_execute", "ktools_script_name"}},
                 np \in {DefaultNumProcesses, GivenNumProcesses},
                 missing \in GLPaths \cup {"none"},
                 sok \in BOOLEAN,
                 toggle \in BOOLEAN}
    /\ glPc = "start"
    /\ glVals = NoVals
    /\ glRunDir = PyNone
    /\ glLog = <<>>
    /\ glExc = "none"
    /\ glDisk \in {[exists |-> glIn.exists["model_run_dir_path"], entries |-> e] :
                     e \in IF glIn.exists["model_run_dir_path"] THEN PriorEntries ELSE {{}}}

GLRaise(exc) ==
    /\ glPc' = "raised"
    /\ glExc' = exc

\* lines 317-330
GL_Inputs ==
    /\ glPc = "start"
    /\ LET v == GLInputs(glIn)
       IN  /\ glVals' = v
           /\ IF v.exc # "none"
              THEN GLRaise(v.exc)
              ELSE glPc' = "mkdir" /\ glExc' = glExc
    /\ UNCHANGED <<glIn, glRunDir, glLog, glDisk>>
    /\ UNCHANGED <<confVars, svVars, apVars, gofVars, rnVars, gkVars, plVars>>

\* lines 332-339: the run directory is created when it is not there
GL_MakeRunDir ==
    /\ glPc = "mkdir"
    /\ IF ~Truthy(glVals.model_run_dir_path)
       THEN /\ glRunDir' = DefaultRunDir
            /\ glLog' = Append(glLog, Ev("mkdir", DefaultRunDir, 0))
       ELSE /\ glRunDir' = glVals.model_run_dir_path
            /\ glLog' = IF ~glIn.exists["model_run_dir_path"]
                        THEN Append(glLog, Ev("mkdir", glVals.model_run_dir_path, 0))
                        ELSE glLog
    /\ glDisk' = [glDisk EXCEPT !.exists = TRUE]
    /\ glPc' = AfterMakeRunDir
    /\ UNCHANGED <<glIn, glVals, glExc>>
    /\ UNCHANGED <<confVars, svVars, apVars, gofVars, rnVars, gkVars, plVars>>

\* lines 344-349: prepare_model_run_directory(...), which may raise
GL_PrepareRunDirectory ==
    /\ glPc = "prepare"
    /\ \E ok \in BOOLEAN :
          IF ok
          THEN /\ glLog' = Append(glLog, Ev("prepare_model_run_directory", glRunDir, 0))
               /\ glDisk' = prepare_model_run_directory(glDisk)
               /\ glPc' = "binary"
               /\ glExc' = glExc
          ELSE /\ GLRaise("OasisException")
               /\ glLog' = glLog
               /\ glDisk' = glDisk
    /\ UNCHANGED <<glIn, glVals, glRunDir>>
    /\ UNCHANGED <<confVars, svVars, apVars, gofVars, rnVars, gkVars, plVars>>

\* lines 351-354: create_binary_files(<run_dir>/input/csv, <run_dir>/input)
GL_CreateBinaryFiles ==
    /\ glPc = "binary"
    /\ \E ok \in BOOLEAN :
          IF ok
          THEN /\ glLog' = Append(glLog, Ev("create_binary_files",
                                            Join(glRunDir, PyStr(FALSE, <<"input">>)), 0))
               /\ glPc' = "settings"
               /\ glExc' = glExc
          ELSE /\ GLRaise("OasisException")
               /\ glLog' = glLog
    /\ UNCHANGED <<glIn, glVals, glRunDir, glDisk>>
    /\ UNCHANGED <<confVars, svVars, apVars, gofVars, rnVars, gkVars, plVars>>

\* lines 356-366: <run_dir>/analysis_settings.json is read and parsed; a file that
\* cannot be read or is not JSON raises, and nothing else of it is looked at
GL_LoadSettings ==
    /\ glPc = "settings"
    /\ IF glIn.settings_ok
       THEN glPc' = "inputs" /\ glExc' = glExc
       ELSE GLRaise("OasisException")
    /\ UNCHANGED <<glIn, glVals, glRunDir, glLog, glDisk>>
    /\ UNCHANGED <<confVars, svVars, apVars, gofVars, rnVars, gkVars, plVars>>

\* line 369: prepare_model_run_inputs(analysis_settings, model_run_dir_path)
GL_PrepareRunInputs ==
    /\ glPc = "inputs"
    /\ \E ok \in BOOLEAN :
          IF ok
          THEN /\ glLog' = Append(glLog, Ev("prepare_model_run_inputs", glRunDir, 0))
               /\ glPc' = "script"
               /\ glExc' = glExc
          ELSE /\ GLRaise("OasisException")
               /\ glLog' = glLog
    /\ UNCHANGED <<glIn, glVals, glRunDir, glDisk>>
    /\ UNCHANGED <<confVars, svVars, apVars, gofVars, rnVars, gkVars, plVars>>

\* lines 372-378: genbash(args.ktools_num_processes, analysis_settings, filename=script_path)
GL_GenBash ==
    /\ glPc = "script"
    /\ ~ExecuteBranch(glVals.no_execute)
    /\ \E ok \in BOOLEAN :
          IF ok
          THEN /\ glLog' = Append(glLog,
                       Ev("genbash", ScriptPath(glRunDir, glVals.ktools_script_name),
                          glIn.num_processes))
               /\ glDisk' = [glDisk EXCEPT !.entries = @ \cup {"ktools_script"}]
               /\ glPc' = "chmod"
               /\ glExc' = glExc
          ELSE /\ GLRaise("OasisException")
               /\ glLog' = glLog
               /\ glDisk' = glDisk
    /\ UNCHANGED <<glIn, glVals, glRunDir>>
    /\ UNCHANGED <<confVars, svVars, apVars, gofVars, rnVars, gkVars, plVars>>

\* lines 379-380: subprocess.check_call("chmod +x <script_path>")
GL_Chmod ==
    /\ glPc = "chmod"
    /\ \E ok \in BOOLEAN :
          IF ok
          THEN /\ glLog' = Append(glLog,
                       Ev("chmod", ScriptPath(glRunDir, glVals.ktools_script_name), 0))
               /\ glPc' = "report"
               /\ glExc' = glExc
          ELSE /\ GLRaise("CalledProcessError")
               /\ glLog' = glLog
    /\ UNCHANGED <<glIn, glVals, glRunDir, glDisk>>
    /\ UNCHANGED <<confVars, svVars, apVars, gofVars, rnVars, gkVars, plVars>>

\* lines 381-383: os.chdir(model_run_dir_path); run(...) is entered
GL_RunCall ==
    /\ glPc = "script"
    /\ ExecuteBranch(glVals.no_execute)
    /\ glLog' = glLog \o <<Ev("chdir", glRunDir, 0),
                           Ev("run", ScriptPath(glRunDir, glVals.ktools_script_name),
                              glIn.num_processes)>>
    /\ glPc' = "running"
    /\ UNCHANGED <<glIn, glVals, glRunDir, glExc, glDisk>>
    /\ UNCHANGED <<confVars, svVars, apVars, gofVars, rnVars, gkVars, plVars>>

\* The exit statuses a stage of the engine can end with.
StageStatuses == {0, 1, 3}

\* run(...): it returns when every stage exited with 0 and raises when one did not
run(status) == IF status = 0 THEN "none" ELSE "OasisException"

\* lines 383-385: run(...) returns, or raises; st is the first non-zero exit
\* status of its stages, 0 when there is none
GL_RunReturn ==
    /\ glPc = "running"
    /\ \E st \in StageStatuses :
          IF run(st) = "none"
          THEN /\ glLog' = Append(glLog, Ev("run_returned", glRunDir, st))
               /\ glPc' = "report"
               /\ glExc' = glExc
          ELSE /\ GLRaise(run(st))
               /\ glLog' = Append(glLog, Ev("run_failed", glRunDir, st))
    /\ UNCHANGED <<glIn, glVals, glRunDir, glDisk>>
    /\ UNCHANGED <<confVars, svVars, apVars, gofVars, rnVars, gkVars, plVars>>

\* line 385: 'Loss outputs generated in ...' is logged and the action returns
GL_Report ==
    /\ glPc = "report"
    /\ glLog' = Append(glLog, Ev("report", Join(glRunDir, PyStr(FALSE, <<"output">>)), 0))
    /\ glPc' = "done"
    /\ UNCHANGED <<glIn, glVals, glRunDir, glExc, glDisk>>
    /\ UNCHANGED <<confVars, svVars, apVars, gofVars, rnVars, gkVars, plVars>>

\* The exit status of the command: 0 when the action returned (it returns
\* None), 1 when it raised, -1 while it has done neither.
CommandExitStatus ==
    IF glPc = "done" THEN 0 ELSE IF glPc = "raised" THEN 1 ELSE -1

GLNext ==
    \/ GL_Inputs
    \/ GL_MakeRunDir
    \/ GL_PrepareRunDirectory
    \/ GL_CreateBinaryFiles
    \/ GL_LoadSettings
    \/ GL_PrepareRunInputs
    \/ GL_GenBash
    \/ GL_Chmod
    \/ GL_RunCall
    \/ GL_RunReturn
    \/ GL_Report

GLIdle ==
    /\ glIn = [args |-> GLArgs({}),
               file |-> [exists |-> FALSE, json |-> TRUE, content |-> GLConfig({})],
               num_processes |-> DefaultNumProcesses,
               exists |-> [n \in GLPaths |-> FALSE],
               settings_ok |-> FALSE,
               has_toggle |-> FALSE]
    /\ glPc = "idle"
    /\ glVals = NoVals
    /\ glRunDir = PyNone
    /\ glLog = <<>>
    /\ glExc = "none"
    /\ glDisk = [exists |-> FALSE, entries |-> {}]

----------------------------------------------------------------------------
(* cmd/model.py: GenerateOasisFilesCmd                                     *)

\* The required options of GenerateOasisFilesCmd.action, in the order of lookup.
GOFRequired ==
    <<"keys_data_path", "model_version_file_path", "lookup_package_path",
      "canonical_exposures_profile_json_path", "source_exposures_file_path",
      "source_exposures_validation_file_path",
      "source_to_canonical_exposures_transformation_file_path",
      "canonical_exposures_validation_file_path",
      "canonical_to_model_exposures_transformation_file_path">>

GOFRequiredNames == {GOFRequired[i] : i \in 1..Len(GOFRequired)}

\* The options GenerateOasisFilesCmd.add_args defines.
GOFNames == {"oasis_files_path"} \cup GOFRequiredNames

\* The command lines and configuration files: which options are given.
GOFArgs(given) == [n \in GOFNames |-> IF n \in given THEN PyStr(FALSE, <<n>>) ELSE PyNone]

GOFConfig(set) == [n \in GOFNames |-> IF n \in set THEN PyStr(FALSE, <<n>>) ELSE Absent]

\* lines 193-194: the timestamped Oasis files directory under the working directory
DefaultOasisFilesPath == PyStr(TRUE, Cwd \o <<"runs", "OasisFiles-utcnow">>)

\* GenerateOasisFilesCmd.action, lines 190-220: the option values
GOFInputs(in) ==
    LET inputs == OasisLmfConf_init(in.args, GLConfigArg, Absent, in.file)
        ofp == as_path(get(inputs, "oasis_files_path", DefaultOasisFilesPath, FALSE, TRUE),
                       FALSE, TRUE)
        req == [i \in 1..Len(GOFRequired) |->
                   as_path(get(inputs, GOFRequired[i], PyNone, TRUE, TRUE),
                           TRUE, in.exists[GOFRequired[i]])]
    IN  [exc |-> IF inputs.exc # "none" THEN inputs.exc ELSE FirstExc(<<ofp>> \o req),
         oasis_files_path |-> ofp.value]

NoGOFVals == [exc |-> "none", oasis_files_path |-> PyNone]

NoGOFIn == [args |-> GOFArgs({}),
            file |-> [exists |-> FALSE, json |-> TRUE, content |-> GOFConfig({})],
            exists |-> [n \in GOFRequiredNames |-> FALSE]]

GOFInit ==
    /\ gofIn \in {[args |-> GOFArgs(GOFNames \ notGiven),
                   file |-> [exists |-> fileExists, json |-> TRUE,
                             content |-> IF fileExists THEN GOFConfig(set) ELSE GOFConfig({})],
                   exists |-> [n \in GOFRequiredNames |-> n # missing]] :
                  notGiven \in {{}, {"oasis_files_path"}, {"lookup_package_path"},
                                {"keys_data_path", "source_exposures_file_path"}},
                  fileExists \in BOOLEAN,
                  set \in {{"lookup_package_path"}, {"keys_data_path"}},
                  missing \in GOFRequiredNames \cup {"none"}}
    /\ gofPc = "start"
    /\ gofVals = NoGOFVals
    /\ gofLog = <<>>
    /\ gofExc = "none"

GOFIdle ==
    /\ gofIn = NoGOFIn
    /\ gofPc = "idle"
    /\ gofVals = NoGOFVals
    /\ gofLog = <<>>
    /\ gofExc = "none"

GOFRaise(exc) ==
    /\ gofPc' = "raised"
    /\ gofExc' = exc

\* lines 190-220
GOF_Inputs ==
    /\ gofPc = "start"
    /\ LET v == GOFInputs(gofIn)
       IN  /\ gofVals' = v
           /\ IF v.exc # "none"
              THEN GOFRaise(v.exc)
              ELSE gofPc' = "lookup" /\ gofExc' = gofExc
    /\ UNCHANGED <<gofIn, gofLog>>
    /\ UNCHANGED <<confVars, glVars, svVars, apVars, rnVars, gkVars, plVars>>

\* lines 222-243: OasisKeysLookupFactory.create and OasisExposuresManager().create,
\* either of which may raise
GOF_CreateModel ==
    /\ gofPc = "lookup"
    /\ \E ok \in BOOLEAN :
          IF ok
          THEN gofPc' = "mkdir" /\ gofExc' = gofExc
          ELSE GOFRaise("OasisException")
    /\ UNCHANGED <<gofIn, gofVals, gofLog>>
    /\ UNCHANGED <<confVars, glVars, svVars, apVars, rnVars, gkVars, plVars>>

\* lines 245-246: Path(oasis_files_path).mkdir(parents=True, exist_ok=True)
GOF_MakeFilesDir ==
    /\ gofPc = "mkdir"
    /\ gofLog' = Append(gofLog, Ev("mkdir", gofVals.oasis_files_path, 0))
    /\ gofPc' = "pipeline"
    /\ UNCHANGED <<gofIn, gofVals, gofExc>>
    /\ UNCHANGED <<confVars, glVars, svVars, apVars, rnVars, gkVars, plVars>>

\* lines 248-256: start_files_pipeline writes the Oasis files, or raises
GOF_FilesPipeline ==
    /\ gofPc = "pipeline"
    /\ \E ok \in BOOLEAN :
          IF ok
          THEN /\ gofLog' = Append(gofLog, Ev("start_files_pipeline",
                                              gofVals.oasis_files_path, 0))
               /\ gofPc' = "done"
               /\ gofExc' = gofExc
          ELSE /\ GOFRaise("OasisException")
               /\ gofLog' = gofLog
    /\ UNCHANGED <<gofIn, gofVals>>
    /\ UNCHANGED <<confVars, glVars, svVars, apVars, rnVars, gkVars, plVars>>

GOFNext ==
    \/ GOF_Inputs
    \/ GOF_CreateModel
    \/ GOF_MakeFilesDir
    \/ GOF_FilesPipeline

----------------------------------------------------------------------------
(* cmd/model.py: GenerateKeysCmd                                           *)

\* The options GenerateKeysCmd.add_args defines.
GKNames == {"model_exposures_file_path", "keys_data_path", "model_version_file_path",
            "lookup_package_path", "output_format", "successes_only", "output_file_path"}

\* The required paths, in the order of lookup.
GKRequired == <<"model_exposures_file_path", "keys_data_path", "model_version_file_path",
                "lookup_package_path">>

GKRequiredNames == {GKRequired[i] : i \in 1..Len(GKRequired)}

\* An output format as a value.
Format(name) == PyStr(FALSE, <<name>>)

\* The --output-format choices, and None when the option is not given.
GKCmdFormats == {PyNone, Format("oasis_keys"), Format("json_keys")}

\* What a configuration file can hold for output_format.
GKFileFormats == {Absent, Format("oasis_keys"), Format("json_keys"), Format("xml")}

\* The command lines: the paths given, the format, --successes-only.
GKArgs(given, fmt, so) ==
    [n \in GKNames |->
        IF n = "output_format" THEN fmt
        ELSE IF n = "successes_only" THEN PyBool(so)
        ELSE IF n \in given THEN PyStr(FALSE, <<n>>)
        ELSE PyNone]

\* The configuration files: the paths set, the format, successes_only.
GKConfig(set, fmt) ==
    [n \in GKNames |->
        IF n = "output_format" THEN fmt
        ELSE IF n = "successes_only"
        THEN (IF n \in set THEN PyBool(TRUE) ELSE Absent)
        ELSE IF n \in set THEN PyStr(FALSE, <<"conf", n>>)
        ELSE Absent]

\* The identifiers of a model version file, as sequences of characters.
SupplierIds == {<<"A", "c", "m", "e">>, <<"a", "c", "m", "e">>, <<"A", "C", "M", "E">>}

ModelIds == {<<"F", "l", "o", "o", "d">>, <<"f", "l", "o", "o", "d">>}

VersionIds == {<<"1", ".", "0">>, <<"V", "1">>}

\* str.lower() of one character
LowerChar(c) ==
    CASE c = "A" -> "a" [] c = "C" -> "c" [] c = "M" -> "m" [] c = "E" -> "e"
      [] c = "F" -> "f" [] c = "V" -> "v" [] OTHER -> c

\* str.lower()
Lower(s) == [i \in DOMAIN s |-> LowerChar(s[i])]

\* line 126: the extension of the default output file
Extension_Csv(output_format) == "csv"

Extension(output_format) == IF output_format = Format("oasis_keys") THEN "csv" ELSE "json"

\* line 126: '{}-{}-{}-keys-{}.{}'.format(...), the fields of the name
default_output_file_name(model_info, utcnow, output_format) ==
    [supplier |-> Lower(model_info.supplier_id),
     model |-> Lower(model_info.model_id),
     version |-> model_info.model_version_id,
     keys |-> "keys",
     stamp |-> utcnow,
     ext |-> Extension(output_format)]

NoName == [supplier |-> <<>>, model |-> <<>>, version |-> <<>>, keys |-> "", stamp |-> "",
           ext |-> ""]

\* The default name as a value handed to inputs.get: one relative path component.
DefaultNameValue == PyStr(FALSE, <<"default_output_file_name">>)

\* lines 108-115: the option values
GKInputs(in) ==
    LET inputs == OasisLmfConf_init(in.args, GLConfigArg, Absent, in.file)
        req == [i \in 1..Len(GKRequired) |->
                   as_path(get(inputs, GKRequired[i], PyNone, TRUE, TRUE),
                           TRUE, in.exists[GKRequired[i]])]
        fmt == get(inputs, "output_format", Format("oasis_keys"), FALSE, FALSE)
        so == get(inputs, "successes_only", PyBool(TRUE), FALSE, FALSE)
    IN  [exc |-> IF inputs.exc # "none" THEN inputs.exc ELSE FirstExc(req \o <<fmt, so>>),
         output_format |-> fmt.value,
         successes_only |-> so.value]

\* line 128: the output file path, the default name being the default of the lookup
GKOutputPath(in) ==
    LET inputs == OasisLmfConf_init(in.args, GLConfigArg, Absent, in.file)
    IN  as_path(get(inputs, "output_file_path", DefaultNameValue, FALSE, TRUE), FALSE, TRUE)

NoGKVals == [exc |-> "none", output_format |-> PyNone, successes_only |-> PyNone]

GKInit ==
    /\ gkIn \in {[args |-> GKArgs(GKRequiredNames \cup given, cfmt, so),
                  file |-> [exists |-> TRUE, json |-> TRUE, content |-> GKConfig(set, ffmt)],
                  exists |-> [n \in GKRequiredNames |-> n # missing],
                  model_info |-> [supplier_id |-> s, model_id |-> m, model_version_id |-> v]] :
                 given \in {{}, {"output_file_path"}},
                 cfmt \in GKCmdFormats, so \in BOOLEAN,
                 set \in {{}, {"output_file_path"}, {"successes_only"}},
                 ffmt \in GKFileFormats,
                 missing \in {"none", "keys_data_path"},
                 s \in SupplierIds, m \in ModelIds, v \in VersionIds}
    /\ gkPc = "start"
    /\ gkVals = NoGKVals
    /\ gkName = NoName
    /\ gkPath = PyNone
    /\ gkLog = <<>>
    /\ gkExc = "none"

GKIdle ==
    /\ gkIn = [args |-> GKArgs({}, PyNone, FALSE),
               file |-> [exists |-> FALSE, json |-> TRUE, content |-> GKConfig({}, Absent)],
               exists |-> [n \in GKRequiredNames |-> FALSE],
               model_info |-> [supplier_id |-> <<>>, model_id |-> <<>>,
                               model_version_id |-> <<>>]]
    /\ gkPc = "idle"
    /\ gkVals = NoGKVals
    /\ gkName = NoName
    /\ gkPath = PyNone
    /\ gkLog = <<>>
    /\ gkExc = "none"

GKRaise(exc) ==
    /\ gkPc' = "raised"
    /\ gkExc' = exc

\* lines 108-115
GK_Inputs ==
    /\ gkPc = "start"
    /\ LET v == GKInputs(gkIn)
       IN  /\ gkVals' = v
           /\ IF v.exc # "none"
              THEN GKRaise(v.exc)
              ELSE gkPc' = "lookup" /\ gkExc' = gkExc
    /\ UNCHANGED <<gkIn, gkName, gkPath, gkLog>>
    /\ UNCHANGED <<confVars, glVars, svVars, apVars, gofVars, rnVars, plVars>>

\* lines 117-123: OasisKeysLookupFactory.create, which may raise
GK_CreateLookup ==
    /\ gkPc = "lookup"
    /\ \E ok \in BOOLEAN :
          IF ok
          THEN gkPc' = "name" /\ gkExc' = gkExc
          ELSE GKRaise("OasisException")
    /\ UNCHANGED <<gkIn, gkVals, gkName, gkPath, gkLog>>
    /\ UNCHANGED <<confVars, glVars, svVars, apVars, gofVars, rnVars, plVars>>

\* lines 125-128: the default name and the output file path
GK_OutputPath ==
    /\ gkPc = "name"
    /\ gkName' = default_output_file_name(gkIn.model_info, "utcnow", gkVals.output_format)
    /\ LET r == GKOutputPath(gkIn)
       IN  IF r.exc # "none"
           THEN GKRaise(r.exc) /\ gkPath' = gkPath
           ELSE gkPath' = r.value /\ gkPc' = "save" /\ gkExc' = gkExc
    /\ UNCHANGED <<gkIn, gkVals, gkLog>>
    /\ UNCHANGED <<confVars, glVars, svVars, apVars, gofVars, rnVars, plVars>>

\* lines 130-138: save_keys writes the records to the output file, or raises
GK_SaveKeys ==
    /\ gkPc = "save"
    /\ \E ok \in BOOLEAN :
          IF ok
          THEN /\ gkLog' = Append(gkLog, Ev("save_keys", gkPath, 0))
               /\ gkPc' = "done"
               /\ gkExc' = gkExc
          ELSE /\ GKRaise("OasisException")
               /\ gkLog' = gkLog
    /\ UNCHANGED <<gkIn, gkVals, gkName, gkPath>>
    /\ UNCHANGED <<confVars, glVars, svVars, apVars, gofVars, rnVars, plVars>>

GKNext ==
    \/ GK_Inputs
    \/ GK_CreateLookup
    \/ GK_OutputPath
    \/ GK_SaveKeys

----------------------------------------------------------------------------
(* cmd/model.py: RunCmd                                                    *)

\* The options RunCmd.add_args defines (besides --ktools-num-processes).
RunArgNames ==
    (GOFRequiredNames \ {"lookup_package_path"})
    \cup {"lookup_package_file_path", "analysis_settings_json_file_path", "model_data_path",
          "model_run_dir_path", "ktools_script_name"}

\* The attributes of args: the options, and oasis_files_path, which action sets.
RunAttrs == RunArgNames \cup {"oasis_files_path"}

\* The names a configuration file can set.
RunConfigNames == RunAttrs \cup {"lookup_package_path", "no_execute"}

\* The paths whose existence the two commands depend on.
RunPaths == GOFRequiredNames \cup {"analysis_settings_json_file_path", "model_data_path"}

\* add_args: the default of --ktools-num-processes of run
DefaultRunNumProcesses == 2

RunArgs(given) == [n \in RunAttrs |-> IF n \in given THEN GLGiven(n)
                                      ELSE IF n \in RunArgNames THEN PyNone ELSE Absent]

RunConfig(set) == [n \in RunConfigNames |-> IF n \in set THEN GLGiven(n) ELSE Absent]

\* lines 467 and 471: an exception of a command's action ends RunCmd.action
Propagates_Never(exc) == FALSE

Propagates(exc) == exc # "none"

RunInit ==
    /\ rnIn \in {[args |-> RunArgs(RunArgNames \ notGiven),
                  file |-> [exists |-> TRUE, json |-> TRUE, content |-> RunConfig(set)],
                  exists |-> [n \in RunPaths |-> n # missing],
                  run_dir_exists |-> rde,
                  settings_ok |-> sok,
                  has_toggle |-> sok /\ toggle,
                  num_processes |-> DefaultRunNumProcesses] :
                 notGiven \in {{"lookup_package_file_path"}, {"model_run_dir_path"},
                               {"ktools_script_name", "keys_data_path"}},
                 set \in {{"lookup_package_path"},
                          {"lookup_package_path", "model_run_dir_path", "no_execute"},
                          {"keys_data_path"}},
                 missing \in {"none", "lookup_package_path", "model_data_path",
                              "source_exposures_file_path"},
                 rde \in BOOLEAN,
                 sok \in BOOLEAN,
                 toggle \in BOOLEAN}
    /\ rnArgs = rnIn.args
    /\ rnPc = "start"
    /\ rnRunDir = PyNone
    /\ rnLog = <<>>
    /\ rnExc = "none"
    /\ GOFIdle
    /\ glIn = [args |-> GLArgs({}),
               file |-> [exists |-> FALSE, json |-> TRUE, content |-> GLConfig({})],
               num_processes |-> DefaultNumProcesses,
               exists |-> [n \in GLPaths |-> FALSE],
               settings_ok |-> FALSE,
               has_toggle |-> FALSE]
    /\ glPc = "idle"
    /\ glVals = NoVals
    /\ glRunDir = PyNone
    /\ glLog = <<>>
    /\ glExc = "none"
    /\ glDisk \in {[exists |-> rnIn.run_dir_exists, entries |-> e] :
                     e \in IF rnIn.run_dir_exists THEN PriorEntries ELSE {{}}}

RunIdle ==
    /\ rnIn = [args |-> RunArgs({}),
               file |-> [exists |-> FALSE, json |-> TRUE, content |-> RunConfig({})],
               exists |-> [n \in RunPaths |-> FALSE],
               run_dir_exists |-> FALSE,
               settings_ok |-> FALSE,
               has_toggle |-> FALSE,
               num_processes |-> DefaultRunNumProcesses]
    /\ rnArgs = RunArgs({})
    /\ rnPc = "idle"
    /\ rnRunDir = PyNone
    /\ rnLog = <<>>
    /\ rnExc = "none"

RunRaise(exc) ==
    /\ rnPc' = "raised"
    /\ rnExc' = exc

\* lines 447-448: InputValues(args) and the run directory option
Run_Inputs ==
    /\ rnPc = "start"
    /\ LET inputs == OasisLmfConf_init(rnArgs, GLConfigArg, Absent, rnIn.file)
           mrd == as_path(get(inputs, "model_run_dir_path", PyNone, FALSE, FALSE),
                          FALSE, rnIn.run_dir_exists)
       IN  IF inputs.exc # "none" \/ mrd.exc # "none"
           THEN /\ RunRaise(IF inputs.exc # "none" THEN inputs.exc ELSE mrd.exc)
                /\ rnRunDir' = rnRunDir
           ELSE /\ rnRunDir' = mrd.value
                /\ rnPc' = "mkdir"
                /\ rnExc' = rnExc
    /\ UNCHANGED <<rnIn, rnArgs, rnLog>>
    /\ UNCHANGED <<confVars, glVars, svVars, apVars, gofVars, gkVars, plVars>>

\* lines 450-457: the run directory is created when it is not there
Run_MakeRunDir ==
    /\ rnPc = "mkdir"
    /\ IF ~Truthy(rnRunDir)
       THEN /\ rnRunDir' = DefaultRunDir
            /\ rnLog' = Append(rnLog, Ev("mkdir", DefaultRunDir, 0))
       ELSE /\ rnRunDir' = rnRunDir
            /\ rnLog' = IF ~glDisk.exists
                        THEN Append(rnLog, Ev("mkdir", rnRunDir, 0))
                        ELSE rnLog
    /\ glDisk' = [glDisk EXCEPT !.exists = TRUE]
    /\ rnPc' = "tmp"
    /\ UNCHANGED <<rnIn, rnArgs, rnExc>>
    /\ UNCHANGED <<glIn, glPc, glVals, glRunDir, glLog, glExc>>
    /\ UNCHANGED <<confVars, svVars, apVars, gofVars, gkVars, plVars>>

\* lines 459-463: args takes the run directory and <run_dir>/tmp, which is made
Run_MakeTmp ==
    /\ rnPc = "tmp"
    /\ LET tmp == Join(rnRunDir, PyStr(FALSE, <<"tmp">>))
       IN  /\ rnArgs' = [rnArgs EXCEPT !["model_run_dir_path"] = rnRunDir,
                                       !["oasis_files_path"] = tmp]
           /\ rnLog' = Append(rnLog, Ev("mkdir", tmp, 0))
    /\ glDisk' = [glDisk EXCEPT !.entries = @ \cup {"tmp"}]
    /\ rnPc' = "call_oasis_files"
    /\ UNCHANGED <<rnIn, rnRunDir, rnExc>>
    /\ UNCHANGED <<glIn, glPc, glVals, glRunDir, glLog, glExc>>
    /\ UNCHANGED <<confVars, svVars, apVars, gofVars, gkVars, plVars>>

\* lines 465-467: GenerateOasisFilesCmd().action(args) is entered
Run_GenerateOasisFiles ==
    /\ rnPc = "call_oasis_files"
    /\ gofIn' = [args |-> rnArgs, file |-> rnIn.file,
                 exists |-> [n \in GOFRequiredNames |-> rnIn.exists[n]]]
    /\ gofPc' = "start"
    /\ rnLog' = Append(rnLog, Ev("generate_oasis_files", rnArgs["oasis_files_path"], 0))
    /\ rnPc' = "oasis_files"
    /\ UNCHANGED <<rnIn, rnArgs, rnRunDir, rnExc>>
    /\ UNCHANGED <<gofVals, gofLog, gofExc>>
    /\ UNCHANGED <<confVars, glVars, svVars, apVars, gkVars, plVars>>

\* lines 467-471: it has returned or raised; GenerateLossesCmd().action(args) is entered
Run_GenerateLosses ==
    /\ rnPc = "oasis_files"
    /\ gofPc \in {"done", "raised"}
    /\ IF Propagates(gofExc)
       THEN /\ RunRaise(gofExc)
            /\ UNCHANGED <<glIn, glPc, rnLog>>
       ELSE /\ glIn' = [args |-> rnArgs, file |-> rnIn.file,
                        num_processes |-> rnIn.num_processes,
                        exists |-> [n \in GLPaths |->
                                       IF n \in {"oasis_files_path", "model_run_dir_path"}
                                       THEN TRUE ELSE rnIn.exists[n]],
                        settings_ok |-> rnIn.settings_ok,
                        has_toggle |-> rnIn.has_toggle]
            /\ glPc' = "start"
            /\ rnLog' = Append(rnLog, Ev("generate_losses", rnArgs["model_run_dir_path"], 0))
            /\ rnPc' = "losses"
            /\ rnExc' = rnExc
    /\ UNCHANGED <<rnIn, rnArgs, rnRunDir>>
    /\ UNCHANGED <<glVals, glRunDir, glLog, glExc, glDisk>>
    /\ UNCHANGED <<confVars, svVars, apVars, gofVars, gkVars, plVars>>

\* line 471: it has returned or raised, and so does RunCmd.action
Run_Return ==
    /\ rnPc = "losses"
    /\ glPc \in {"done", "raised"}
    /\ IF Propagates(glExc)
       THEN RunRaise(glExc)
       ELSE rnPc' = "done" /\ rnExc' = rnExc
    /\ UNCHANGED <<rnIn, rnArgs, rnRunDir, rnLog>>
    /\ UNCHANGED <<confVars, glVars, svVars, apVars, gofVars, gkVars, plVars>>

RunNext ==
    \/ Run_Inputs
    \/ Run_MakeRunDir
    \/ Run_MakeTmp
    \/ Run_GenerateOasisFiles
    \/ Run_GenerateLosses
    \/ Run_Return
    \/ GOF_Inputs
    \/ GOF_CreateModel
    \/ GOF_MakeFilesDir
    \/ GOF_FilesPipeline
    \/ GL_Inputs
    \/ GL_MakeRunDir
    \/ GL_PrepareRunDirectory
    \/ GL_CreateBinaryFiles
    \/ GL_LoadSettings
    \/ GL_PrepareRunInputs
    \/ GL_GenBash
    \/ GL_Chmod
    \/ GL_RunCall
    \/ GL_RunReturn
    \/ GL_Report

----------------------------------------------------------------------------
(* model_execution: the execution plan that genbash writes and run executes *)

\* The most calculation processes of a plan.
MaxProcesses == 2

\* The events that flow through a running plan.
MaxEvents == 1

\* The loss outputs of a plan: ground-up only, or ground-up and insured.
PlanModes(il) == IF il THEN {"gul", "il"} ELSE {"gul"}

Stage(kind, mode, p) == [kind |-> kind, mode |-> mode, p |-> p]

\* A named pipe: into chain p of a mode, or out of it.
Pipe(kind, mode, p) == [kind |-> kind, mode |-> mode, p |-> p]

\* The stages of a plan: the fan-out, one chain per process and mode, one fan-in per mode
PlanStages(P, il) ==
    {Stage("fanout", "all", 0)}
    \cup {Stage("chain", m, p) : m \in PlanModes(il), p \in 1..P}
    \cup {Stage("fanin", m, 0) : m \in PlanModes(il)}

PlanPipes(P, il) == {Pipe(k, m, p) : k \in {"in", "out"}, m \in PlanModes(il), p \in 1..P}

\* The pipes a stage writes: the fan-out feeds every chain, a chain its own pipe
StageWrites(P, il, s) ==
    IF s.kind = "fanout" THEN {Pipe("in", m, p) : m \in PlanModes(il), p \in 1..P}
    ELSE IF s.kind = "chain" THEN {Pipe("out", s.mode, s.p)}
    ELSE {}

\* The pipes a stage reads: a chain its own pipe, a fan-in every chain of its mode
StageReads_Shared(P, il, s) ==
    IF s.kind = "chain" THEN {Pipe("in", s.mode, 1)}
    ELSE IF s.kind = "fanin" THEN {Pipe("out", s.mode, p) : p \in 1..P}
    ELSE {}

StageReads(P, il, s) ==
    IF s.kind = "chain" THEN {Pipe("in", s.mode, s.p)}
    ELSE IF s.kind = "fanin" THEN {Pipe("out", s.mode, p) : p \in 1..P}
    ELSE {}

\* genbash(max_process_id, analysis_settings): the plan, its stages in the order
\* of launch, background stages first and the fan-in stages last
genbash(P, il) ==
    [pipes |-> PlanPipes(P, il),
     stages |-> PlanStages(P, il),
     writes |-> [s \in PlanStages(P, il) |-> StageWrites(P, il, s)],
     reads |-> [s \in PlanStages(P, il) |-> StageReads(P, il, s)],
     foreground |-> {s \in PlanStages(P, il) : s.kind = "fanin"}]

NoPlan == [pipes |-> {}, stages |-> {}, writes |-> <<>>, reads |-> <<>>, foreground |-> {}]

Writers(plan, x) == {s \in plan.stages : x \in plan.writes[s]}

Readers(plan, x) == {s \in plan.stages : x \in plan.reads[s]}

PlanInit ==
    /\ plIn \in [P : 1..MaxProcesses, il : BOOLEAN]
    /\ plPc = "start"
    /\ plPlan = NoPlan
    /\ plMade = {}
    /\ plLaunched = {}
    /\ plBuf = <<>>
    /\ plSent = <<>>

PlanIdle ==
    /\ plIn = [P |-> 1, il |-> FALSE]
    /\ plPc = "idle"
    /\ plPlan = NoPlan
    /\ plMade = {}
    /\ plLaunched = {}
    /\ plBuf = <<>>
    /\ plSent = <<>>

\* genbash builds the plan; it spawns nothing
Plan_Generate ==
    /\ plPc = "start"
    /\ plPlan' = genbash(plIn.P, plIn.il)
    /\ plPc' = "generated"
    /\ UNCHANGED <<plIn, plMade, plLaunched, plBuf, plSent>>
    /\ UNCHANGED <<confVars, glVars, svVars, apVars, gofVars, rnVars, gkVars>>

\* The pipes the runner creates ahead of the stages: every pipe of the plan
CreatedFirst_None(plan) == {}

CreatedFirst(plan) == plan.pipes

\* The name a pipe is given in the file system: its direction, loss output
\* and the number of its chain
PipeName(x) == <<x.kind, x.mode, x.p>>

\* The pipes are created before any stage is launched
Plan_MakePipes ==
    /\ plPc = "generated"
    /\ plMade' = CreatedFirst(plPlan)
    /\ plBuf' = [x \in plPlan.pipes |-> 0]
    /\ plSent' = [x \in plPlan.pipes |-> 0]
    /\ plPc' = "running"
    /\ UNCHANGED <<plIn, plPlan, plLaunched>>
    /\ UNCHANGED <<confVars, glVars, svVars, apVars, gofVars, rnVars, gkVars>>

\* A stage is launched: the background stages first, the foreground stages last
Plan_Launch ==
    /\ plPc = "running"
    /\ \E s \in plPlan.stages \ plLaunched :
          /\ s \in plPlan.foreground => (plPlan.stages \ plPlan.foreground) \subseteq plLaunched
          /\ plLaunched' = plLaunched \cup {s}
    /\ UNCHANGED <<plIn, plPc, plPlan, plMade, plBuf, plSent>>
    /\ UNCHANGED <<confVars, glVars, svVars, apVars, gofVars, rnVars, gkVars>>

\* A pipe can be written: it is empty and a launched reader holds its other
\* end.  A pipe holds one item at most, the least buffering a pipe can give:
\* its writer blocks until the reader has taken the item.
CanWrite(x) ==
    /\ plBuf[x] = 0
    /\ Readers(plPlan, x) \cap plLaunched # {}

\* The fan-out writes the next event to one of its pipes, every pipe getting
\* an event before any pipe gets the next one
Plan_Produce ==
    /\ plPc = "running"
    /\ \E s \in plLaunched : \E x \in plPlan.writes[s] :
          /\ plPlan.reads[s] = {}
          /\ CanWrite(x)
          /\ plSent[x] < MaxEvents
          /\ \A y \in plPlan.writes[s] : plSent[x] <= plSent[y]
          /\ plBuf' = [plBuf EXCEPT ![x] = @ + 1]
          /\ plSent' = [plSent EXCEPT ![x] = @ + 1]
    /\ UNCHANGED <<plIn, plPc, plPlan, plMade, plLaunched>>
    /\ UNCHANGED <<confVars, glVars, svVars, apVars, gofVars, rnVars, gkVars>>

\* A chain takes an item from the pipe it reads and writes its result
Plan_Transfer ==
    /\ plPc = "running"
    /\ \E s \in plLaunched : \E x \in plPlan.reads[s], y \in plPlan.writes[s] :
          /\ plBuf[x] > 0
          /\ CanWrite(y)
          /\ plBuf' = [plBuf EXCEPT ![x] = @ - 1, ![y] = @ + 1]
    /\ UNCHANGED <<plIn, plPc, plPlan, plMade, plLaunched, plSent>>
    /\ UNCHANGED <<confVars, glVars, svVars, apVars, gofVars, rnVars, gkVars>>

\* A fan-in stage takes an item from one of the pipes it reads
Plan_Consume ==
    /\ plPc = "running"
    /\ \E s \in plLaunched : \E x \in plPlan.reads[s] :
          /\ plPlan.writes[s] = {}
          /\ plBuf[x] > 0
          /\ plBuf' = [plBuf EXCEPT ![x] = @ - 1]
    /\ UNCHANGED <<plIn, plPc, plPlan, plMade, plLaunched, plSent>>
    /\ UNCHANGED <<confVars, glVars, svVars, apVars, gofVars, rnVars, gkVars>>

\* Every event went through every pipe: the stages exit and the run is complete
PlanDrained ==
    /\ plLaunched = plPlan.stages
    /\ \A x \in plPlan.pipes :
          /\ plBuf[x] = 0
          /\ Writers(plPlan, x) # {} /\ (\E s \in Writers(plPlan, x) : plPlan.reads[s] = {})
                => plSent[x] = MaxEvents

Plan_Finish ==
    /\ plPc = "running"
    /\ PlanDrained
    /\ plPc' = "done"
    /\ UNCHANGED <<plIn, plPlan, plMade, plLaunched, plBuf, plSent>>
    /\ UNCHANGED <<confVars, glVars, svVars, apVars, gofVars, rnVars, gkVars>>

PlanNext ==
    \/ Plan_Generate
    \/ Plan_MakePipes
    \/ Plan_Launch
    \/ Plan_Produce
    \/ Plan_Transfer
    \/ Plan_Consume
    \/ Plan_Finish

----------------------------------------------------------------------------
(* keys/server.py: the keys lookup service                                 *)

\* utils.http: the status codes the handlers use
HTTP_RESPONSE_OK == 200

HTTP_RESPONSE_INTERNAL_SERVER_ERROR == 500

\* Flask's answer to a path that no route matches
HTTP_NOT_FOUND == 404

\* The most records a resolver yields for one request.
MaxRecords == 2

\* The records a resolver can yield.
RecordIds == {"k1", "k2"}

RecordSeqs == UNION {[1..n -> RecordIds] : n \in 0..MaxRecords}

\* ModelVersion.csv: supplier, model name, model version
ModelVersionRow == <<"AcmeCo", "Flood01", "1.0">>

\* lines 46-58: the module-level variables before init()
InitialGlobals ==
    [APP |-> FALSE, KEYS_SERVER_INI_FILE |-> PyNone, MODEL_CONFIG |-> FALSE,
     CONFIG_PARSER |-> FALSE, logger |-> FALSE, KEYS_DATA_DIRECTORY |-> PyNone,
     MODEL_VERSION_FILE |-> PyNone, MODEL_VERSION |-> <<>>,
     SERVICE_BASE_URL |-> PyNone, keys_lookup |-> FALSE, COMPRESS_RESPONSE |-> FALSE]

\* What init() finds outside the module.
ServerEnvs ==
    {[env_conf |-> Absent,
      conf_file |-> IF hasFile
                    THEN [exists |-> TRUE, json |-> TRUE,
                          content |-> [n \in {"keys_server_ini_file", "keys_data_path",
                                              "lookup_package_path"} |-> PyStr(FALSE, <<n>>)]]
                    ELSE [exists |-> FALSE, json |-> FALSE, content |-> EmptyDict],
      ini_ok |-> ini, compress |-> cr, keys_dir_ok |-> kd, version_file_ok |-> vf] :
     hasFile \in BOOLEAN, ini \in BOOLEAN, cr \in BOOLEAN, kd \in BOOLEAN, vf \in BOOLEAN}

\* init(), lines 63-135: the globals it leaves and the exception that ended it
init(env) ==
    LET g1 == [InitialGlobals EXCEPT !.APP = TRUE]
        \* line 83: OasisLmfConf() has no overrides and no conf_path
        conf == OasisLmfConf_init(EmptyDict, PyNone, env.env_conf, env.conf_file)
        ini_file == get(conf, "keys_server_ini_file", PyNone, FALSE, FALSE).value
        g2 == [g1 EXCEPT !.MODEL_CONFIG = TRUE, !.KEYS_SERVER_INI_FILE = ini_file]
        \* lines 87-97: the INI file, the logger, the compression flag
        g3 == [g2 EXCEPT !.CONFIG_PARSER = TRUE, !.logger = TRUE,
                         !.COMPRESS_RESPONSE = env.compress]
        keys_dir == get(conf, "keys_data_path", PyNone, FALSE, FALSE).value
        g4 == [g3 EXCEPT !.KEYS_DATA_DIRECTORY = keys_dir]
        g5 == [g4 EXCEPT !.MODEL_VERSION_FILE = Join(keys_dir, PyStr(FALSE, <<"ModelVersion.csv">>))]
    IN  IF conf.exc # "none" THEN [g |-> g1, exc |-> conf.exc]
        ELSE IF ini_file = PyNone THEN [g |-> g2, exc |-> "TypeError"]
        ELSE IF ~env.ini_ok THEN [g |-> g2, exc |-> "OasisException"]
        ELSE IF keys_dir = PyNone THEN [g |-> g4, exc |-> "TypeError"]
        ELSE IF ~env.keys_dir_ok THEN [g |-> g4, exc |-> "OasisException"]
        ELSE IF ~env.version_file_ok THEN [g |-> g5, exc |-> "OasisException"]
        ELSE \* line 111: map(tuple, csv.reader(f))[0] subscripts a map object
             [g |-> g5, exc |-> "TypeError"]

\* A route path under a base URL: '{}/name'.format(SERVICE_BASE_URL), or '/name'
RoutePath(base, name) ==
    IF Truthy(base) THEN PyStr(TRUE, base.parts \o <<name>>) ELSE PyStr(TRUE, <<name>>)

\* The base URL of the model: /{supplier}/{model}/{version}
ModelPrefix == PyStr(TRUE, ModelVersionRow)

\* The paths a client asks for.
ClientPaths(name) == {RoutePath(ModelPrefix, name), RoutePath(PyNone, name)}

\* Response bodies: none, a text, the JSON of get_keys, a page of the framework.
EmptyBody == [kind |-> "empty", text |-> "", items |-> <<>>]

TextBody(t) == [kind |-> "text", text |-> t, items |-> <<>>]

JsonBody(status, items) == [kind |-> "json", text |-> status, items |-> items]

FrameworkPage(t) == [kind |-> "page", text |-> t, items |-> <<>>]

\* What a view function returns: a Response, a str, or None.
Response(status, body, deflate) ==
    [kind |-> "Response", status |-> status, body |-> body, deflate |-> deflate]

ReturnsNone == [kind |-> "None", status |-> 0, body |-> EmptyBody, deflate |-> FALSE]

ReturnsStr(t) == [kind |-> "str", status |-> 0, body |-> TextBody(t), deflate |-> FALSE]

\* healthcheck(), lines 149-153
healthcheck_Down == ReturnsNone

healthcheck == ReturnsStr("OK")

\* The requests to get_keys: the headers, whether the payload decompresses and
\* parses, and what the resolver does with it (the records it yields, and the
\* number of records after which it raises, if it does).
KeysRequest(ct, ce, ok, recs, ra) ==
    [content_type |-> ct, content_encoding |-> ce, payload_ok |-> ok,
     records |-> recs, raise_after |-> ra]

KeysRequests ==
    {KeysRequest(ct, ce, ok, <<>>, -1) :
        ct \in {"missing", "html"}, ce \in {"missing", "gzip"}, ok \in BOOLEAN}
    \cup {KeysRequest(ct, ce, FALSE, <<>>, -1) :
        ct \in {"csv", "json"}, ce \in {"missing", "gzip"}}
    \cup {KeysRequest(ct, ce, TRUE, recs, ra) :
        ct \in {"csv", "json"}, ce \in {"missing", "gzip"}, recs \in RecordSeqs,
        ra \in {-1, 1}}

NoRequest == [content_type |-> "missing", content_encoding |-> "missing", payload_ok |-> FALSE,
              records |-> <<>>, raise_after |-> -1]

\* lines 218-222: the handler of any exception of the request
ErrorResponse(g) ==
    IF ~g.logger
    THEN \* logger.error on None raises inside the except block; finally returns response
         ReturnsNone
    ELSE Response(HTTP_RESPONSE_INTERNAL_SERVER_ERROR, EmptyBody, FALSE)

\* lines 195-197: the resolver is run to its end, or to the record where it raises
ResolverRaises(req) == req.raise_after >= 0 /\ req.raise_after <= Len(req.records)

\* get_keys(), lines 158-224: what it returns and whether the resolver was called
get_keys(g, req) ==
    IF req.content_type \notin {"csv", "json"}
    THEN \* lines 165-174
         [rv |-> ErrorResponse(g), called |-> FALSE]
    ELSE IF ~g.logger
    THEN \* line 181: logger.info on None
         [rv |-> ErrorResponse(g), called |-> FALSE]
    ELSE IF ~req.payload_ok
    THEN \* lines 183-193: decompression, decoding or parsing fails
         [rv |-> ErrorResponse(g), called |-> FALSE]
    ELSE IF ~g.keys_lookup
    THEN \* line 196: keys_lookup is None
         [rv |-> ErrorResponse(g), called |-> FALSE]
    ELSE IF ResolverRaises(req)
    THEN [rv |-> ErrorResponse(g), called |-> TRUE]
    ELSE \* lines 199-217
         [rv |-> Response(HTTP_RESPONSE_OK, JsonBody("success", req.records),
                          g.COMPRESS_RESPONSE),
          called |-> TRUE]

\* Flask: the response sent for what the view returned
FlaskResponse(rv) ==
    IF rv.kind = "None"
    THEN [status |-> HTTP_RESPONSE_INTERNAL_SERVER_ERROR,
          body |-> FrameworkPage("Internal Server Error")]
    ELSE IF rv.kind = "str"
    THEN [status |-> HTTP_RESPONSE_OK, body |-> rv.body]
    ELSE [status |-> rv.status, body |-> rv.body]

\* Flask: the response to a path no route matches
FlaskNotFound == [status |-> HTTP_NOT_FOUND, body |-> FrameworkPage("Not Found")]

NoWire == [status |-> 0, body |-> EmptyBody]

\* lines 147-148 and 156-157: the routes registered when the module is loaded
RegisteredRoutes(g) ==
    {[method |-> "GET", path |-> RoutePath(g.SERVICE_BASE_URL, "healthcheck")],
     [method |-> "POST", path |-> RoutePath(g.SERVICE_BASE_URL, "get_keys")]}

ServerInit ==
    /\ svEnv \in ServerEnvs
    /\ svPhase = "unloaded"
    /\ svG = InitialGlobals
    /\ svInitExc = "none"
    /\ svRoutes = {}
    /\ svReq = [kind |-> "none", path |-> PyNone, keys |-> NoRequest]
    /\ svRv = ReturnsNone
    /\ svCalled = FALSE
    /\ svResp = NoWire

ServerIdle ==
    /\ svEnv = CHOOSE e \in ServerEnvs : TRUE
    /\ svPhase = "idle"
    /\ svG = InitialGlobals
    /\ svInitExc = "none"
    /\ svRoutes = {}
    /\ svReq = [kind |-> "none", path |-> PyNone, keys |-> NoRequest]
    /\ svRv = ReturnsNone
    /\ svCalled = FALSE
    /\ svResp = NoWire

\* lines 138-157: the module is loaded: init() under its guard, then the routes
ServerLoad ==
    /\ svPhase = "unloaded"
    /\ LET r == init(svEnv)
       IN  /\ svG' = r.g
           /\ svInitExc' = r.exc
           /\ IF r.g.APP
              THEN svPhase' = "serving" /\ svRoutes' = RegisteredRoutes(r.g)
              ELSE svPhase' = "import_error" /\ svRoutes' = {}
    /\ UNCHANGED <<svEnv, svReq, svRv, svCalled, svResp>>
    /\ UNCHANGED <<confVars, glVars, apVars, gofVars, rnVars, gkVars, plVars>>

\* lines 149-153 and 158-224: the handlers have no global statement and assign
\* no module-level name: the globals after a request are the globals before it
GlobalsAfterRequest_Compress(g, gzipped) == [g EXCEPT !.COMPRESS_RESPONSE = gzipped]

GlobalsAfterRequest(g, gzipped) == g

\* A GET of a healthcheck path
HealthcheckRequest ==
    /\ svPhase = "serving"
    /\ \E p \in ClientPaths("healthcheck") :
          /\ svReq' = [kind |-> "healthcheck", path |-> p, keys |-> NoRequest]
          /\ IF [method |-> "GET", path |-> p] \in svRoutes
             THEN /\ svRv' = healthcheck
                  /\ svResp' = FlaskResponse(healthcheck)
             ELSE /\ svRv' = ReturnsNone
                  /\ svResp' = FlaskNotFound
    /\ svCalled' = FALSE
    /\ svG' = GlobalsAfterRequest(svG, FALSE)
    /\ UNCHANGED <<svEnv, svPhase, svInitExc, svRoutes>>
    /\ UNCHANGED <<confVars, glVars, apVars, gofVars, rnVars, gkVars, plVars>>

\* A POST to a get_keys path
GetKeysRequest ==
    /\ svPhase = "serving"
    /\ \E p \in ClientPaths("get_keys"), req \in KeysRequests :
          /\ svReq' = [kind |-> "get_keys", path |-> p, keys |-> req]
          /\ IF [method |-> "POST", path |-> p] \in svRoutes
             THEN LET r == get_keys(svG, req)
                  IN  /\ svRv' = r.rv
                      /\ svCalled' = r.called
                      /\ svResp' = FlaskResponse(r.rv)
             ELSE /\ svRv' = ReturnsNone
                  /\ svCalled' = FALSE
                  /\ svResp' = FlaskNotFound
          /\ svG' = GlobalsAfterRequest(svG, req.content_encoding = "gzip")
    /\ UNCHANGED <<svEnv, svPhase, svInitExc, svRoutes>>
    /\ UNCHANGED <<confVars, glVars, apVars, gofVars, rnVars, gkVars, plVars>>

ServerNext == ServerLoad \/ HealthcheckRequest \/ GetKeysRequest

----------------------------------------------------------------------------
(* cmd/test.py: TestModelApiCmd                                            *)

\* The most analyses of a batch (--num-analyses).
MaxAnalyses == 3

\* The most health check attempts (--health-check-attempts).
MaxAttempts == 2

\* run_analysis(self, client, input_directory, output_directory,
\*              analysis_settings, do_il, counter): its parameters after self
RunAnalysisParams == 6

\* lines 153-156: Pool.map calls its function with one argument, an item of the
\* iterable; here the item is the 6-tuple
MapCallArgs == 1

\* What a call of run_analysis does to the analysis.
Outcomes == {"completed", "upload_raises", "run_raises"}

\* run_analysis, lines 113-121, called with nargs positional arguments
run_analysis(nargs, outcome, counter) ==
    IF nargs # RunAnalysisParams
    THEN \* the call itself fails: nothing of the body runs
         [exc |-> "TypeError", counter |-> counter]
    ELSE IF outcome = "completed"
    THEN [exc |-> "none", counter |-> [counter EXCEPT !.completed = @ + 1]]
    ELSE [exc |-> "none", counter |-> [counter EXCEPT !.failed = @ + 1]]

\* lines 135-136: `if not client.health_check(...)`
HealthFailed_Never(passed) == FALSE

HealthFailed(passed) == ~passed

ApiInit ==
    /\ apIn \in [attempts : 0..MaxAttempts, num_analyses : 0..MaxAnalyses,
                 out_dir_exists : BOOLEAN, settings_ok : BOOLEAN]
    /\ apPc = "start"
    /\ apTries = 0
    /\ apHealthy = FALSE
    /\ apLog = <<>>
    /\ apCounter = [completed |-> 0, failed |-> 0]
    /\ apTasks = <<>>
    /\ apExc = "none"
    /\ apReturn = -1

ApiIdle ==
    /\ apIn = [attempts |-> 0, num_analyses |-> 0, out_dir_exists |-> FALSE,
               settings_ok |-> FALSE]
    /\ apPc = "idle"
    /\ apTries = 0
    /\ apHealthy = FALSE
    /\ apLog = <<>>
    /\ apCounter = [completed |-> 0, failed |-> 0]
    /\ apTasks = <<>>
    /\ apExc = "none"
    /\ apReturn = -1

ApiRaise(exc) ==
    /\ apPc' = "raised"
    /\ apExc' = exc

\* line 132: the client is made; line 135: health_check is entered
Api_Start ==
    /\ apPc = "start"
    /\ apPc' = "health"
    /\ UNCHANGED <<apIn, apTries, apHealthy, apLog, apCounter, apTasks, apExc, apReturn>>
    /\ UNCHANGED <<confVars, glVars, svVars, gofVars, rnVars, gkVars, plVars>>

\* client.health_check(attempts): one attempt, answered or not
Api_HealthAttempt ==
    /\ apPc = "health"
    /\ ~apHealthy
    /\ apTries < apIn.attempts
    /\ apTries' = apTries + 1
    /\ \E ok \in BOOLEAN :
          /\ apHealthy' = ok
          /\ apLog' = Append(apLog, IF ok THEN "health_ok" ELSE "health_failed")
    /\ UNCHANGED <<apIn, apPc, apCounter, apTasks, apExc, apReturn>>
    /\ UNCHANGED <<confVars, glVars, svVars, gofVars, rnVars, gkVars, plVars>>

\* lines 135-136: health_check has returned
Api_HealthChecked ==
    /\ apPc = "health"
    /\ apHealthy \/ apTries >= apIn.attempts
    /\ IF HealthFailed(apHealthy)
       THEN ApiRaise("OasisException")
       ELSE apPc' = "mkdir" /\ apExc' = apExc
    /\ UNCHANGED <<apIn, apTries, apHealthy, apLog, apCounter, apTasks, apReturn>>
    /\ UNCHANGED <<confVars, glVars, svVars, gofVars, rnVars, gkVars, plVars>>

\* lines 139-140: the output directory is made if it is not there
Api_MakeOutputDir ==
    /\ apPc = "mkdir"
    /\ apLog' = IF ~apIn.out_dir_exists THEN Append(apLog, "mkdir") ELSE apLog
    /\ apPc' = "settings"
    /\ UNCHANGED <<apIn, apTries, apHealthy, apCounter, apTasks, apExc, apReturn>>
    /\ UNCHANGED <<confVars, glVars, svVars, gofVars, rnVars, gkVars, plVars>>

\* lines 144-146: load_analysis_settings_json, which raises on a bad file
Api_LoadSettings ==
    /\ apPc = "settings"
    /\ IF apIn.settings_ok
       THEN /\ apLog' = Append(apLog, "settings_loaded")
            /\ apPc' = "pool"
            /\ apExc' = apExc
       ELSE /\ ApiRaise("ValueError")
            /\ apLog' = apLog
    /\ UNCHANGED <<apIn, apTries, apHealthy, apCounter, apTasks, apReturn>>
    /\ UNCHANGED <<confVars, glVars, svVars, gofVars, rnVars, gkVars, plVars>>

\* lines 149-156: the counter, the pool of num_analyses threads, one task per analysis
Api_StartPool ==
    /\ apPc = "pool"
    /\ apCounter' = [completed |-> 0, failed |-> 0]
    /\ IF apIn.num_analyses < 1
       THEN \* ThreadPool(processes=0)
            /\ ApiRaise("ValueError")
            /\ apTasks' = apTasks
            /\ apLog' = apLog
       ELSE /\ apTasks' = [i \in 1..apIn.num_analyses |-> "queued"]
            /\ apLog' = Append(apLog, "pool_started")
            /\ apPc' = "map"
            /\ apExc' = apExc
    /\ UNCHANGED <<apIn, apTries, apHealthy, apReturn>>
    /\ UNCHANGED <<confVars, glVars, svVars, gofVars, rnVars, gkVars, plVars>>

\* lines 153-156: the item of task i, the same tuple for every i of range(N)
MapItem(i) ==
    [client |-> "client", input_directory |-> "args.input_directory",
     output_directory |-> "args.output_directory", counter |-> "counter"]

\* A pool thread runs task i: self.run_analysis(item)
Api_Worker ==
    /\ apPc = "map"
    /\ \E i \in 1..Len(apTasks), outcome \in Outcomes :
          /\ apTasks[i] = "queued"
          /\ LET r == run_analysis(MapCallArgs, outcome, apCounter)
             IN  /\ apCounter' = r.counter
                 /\ apTasks' = [apTasks EXCEPT ![i] = IF r.exc # "none" THEN r.exc
                                                      ELSE outcome]
    /\ UNCHANGED <<apIn, apPc, apTries, apHealthy, apLog, apExc, apReturn>>
    /\ UNCHANGED <<confVars, glVars, svVars, gofVars, rnVars, gkVars, plVars>>

\* The tasks whose call raised.
RaisedTasks == {i \in 1..Len(apTasks) : apTasks[i] \notin (Outcomes \cup {"queued"})}

\* lines 153-162: map returns when every task is done and re-raises a task's
\* exception; otherwise close, join, the summary and return 0
Api_MapReturns ==
    /\ apPc = "map"
    /\ \A i \in 1..Len(apTasks) : apTasks[i] # "queued"
    /\ IF RaisedTasks # {}
       THEN /\ ApiRaise(apTasks[CHOOSE i \in RaisedTasks : \A j \in RaisedTasks : i <= j])
            /\ apLog' = apLog
            /\ apReturn' = apReturn
       ELSE /\ apLog' = Append(apLog, "summary")
            /\ apPc' = "done"
            /\ apReturn' = 0
            /\ apExc' = apExc
    /\ UNCHANGED <<apIn, apTries, apHealthy, apCounter, apTasks>>
    /\ UNCHANGED <<confVars, glVars, svVars, gofVars, rnVars, gkVars, plVars>>

ApiNext ==
    \/ Api_Start
    \/ Api_HealthAttempt
    \/ Api_HealthChecked
    \/ Api_MakeOutputDir
    \/ Api_LoadSettings
    \/ Api_StartPool
    \/ Api_Worker
    \/ Api_MapReturns

----------------------------------------------------------------------------
(* The specifications.                                                     *)

InitConf == ConfInit /\ GLIdle /\ ServerIdle /\ ApiIdle /\ GOFIdle /\ RunIdle /\ GKIdle /\ PlanIdle

SpecConf == InitConf /\ [][ConfNext]_vars

InitLosses == GLInit /\ ConfIdle /\ ServerIdle /\ ApiIdle /\ GOFIdle /\ RunIdle /\ GKIdle /\ PlanIdle

SpecLosses == InitLosses /\ [][GLNext]_vars

InitServer == ServerInit /\ ConfIdle /\ GLIdle /\ ApiIdle /\ GOFIdle /\ RunIdle /\ GKIdle /\ PlanIdle

SpecServer == InitServer /\ [][ServerNext]_vars

InitApi == ApiInit /\ ConfIdle /\ GLIdle /\ ServerIdle /\ GOFIdle /\ RunIdle /\ GKIdle /\ PlanIdle

SpecApi == InitApi /\ [][ApiNext]_vars

InitOasisFiles == GOFInit /\ ConfIdle /\ GLIdle /\ ServerIdle /\ ApiIdle /\ RunIdle /\ GKIdle /\ PlanIdle

SpecOasisFiles == InitOasisFiles /\ [][GOFNext]_vars

InitRun == RunInit /\ ConfIdle /\ ServerIdle /\ ApiIdle /\ GKIdle /\ PlanIdle

SpecRun == InitRun /\ [][RunNext]_vars

\* generate-losses on its own, or within run
InitWorkspace == InitLosses \/ InitRun

SpecWorkspace == InitWorkspace /\ [][RunNext]_vars

InitKeys == GKInit /\ ConfIdle /\ GLIdle /\ ServerIdle /\ ApiIdle /\ GOFIdle /\ RunIdle /\ PlanIdle

SpecKeys == InitKeys /\ [][GKNext]_vars

InitPlan ==
    PlanInit /\ ConfIdle /\ GLIdle /\ ServerIdle /\ ApiIdle /\ GOFIdle /\ RunIdle /\ GKIdle

SpecPlan == InitPlan /\ [][PlanNext]_vars

----------------------------------------------------------------------------
(* Claims about OasisLmfConf.get, under SpecConf.                          *)

\* The three sources of the last call, as its caller sees them.
CmdValue == DictGet(cObj.overrides, cCall.name)

CmdPresent == CmdValue # PyNone

ConfigNamePresent == DictHas(cObj.config, cCall.name)

ConfigValuePresent == ConfigNamePresent /\ cObj.config[cCall.name] # PyNone

\* What a returned value is, given the chosen source value.
ReturnedFrom(chosen) ==
    cRes.value = IF cCall.is_path /\ chosen # PyNone THEN ResolvePath(cObj, chosen)
                 ELSE chosen

\* C1 as stated: a get that returns gives the command-line value when it is
\* present, otherwise the configuration file's value when the name is present
\* there, otherwise the default.
C1_Original ==
    (cCall.made /\ cRes.exc = "none") =>
        ReturnedFrom(IF CmdPresent THEN CmdValue
                     ELSE IF ConfigNamePresent THEN cObj.config[cCall.name]
                     ELSE cCall.default)

\* C1 amended: a get that returns gives the command-line value when it is not
\* None, otherwise the configuration file's value when the name is there with
\* a non-null value, otherwise the default (a path value resolved against the
\* configuration directory); the command-line value is never shadowed.
C1_Precedence ==
    (cCall.made /\ cRes.exc = "none") =>
        /\ ReturnedFrom(IF CmdPresent THEN CmdValue
                        ELSE IF ConfigValuePresent THEN cObj.config[cCall.name]
                        ELSE cCall.default)
        /\ (CmdPresent /\ ~cCall.is_path) => cRes.value = CmdValue

\* C1 witness: the command line, the file and the default all give different
\* values and the command line's is returned.
C1_Witness ==
    /\ cCall.made /\ cRes.exc = "none" /\ ~cCall.is_path
    /\ CmdPresent /\ ConfigValuePresent
    /\ cObj.config[cCall.name] # CmdValue
    /\ cCall.default # CmdValue /\ cCall.default # PyNone
    /\ cRes.value = CmdValue

\* What the three sources give when consulted in turn, the default last.
AfterDefault ==
    IF CmdPresent THEN CmdValue
    ELSE IF ConfigValuePresent THEN cObj.config[cCall.name]
    ELSE cCall.default

\* C2 as stated: the required-value error is raised exactly when the option is
\* required and still absent after the command line, the file and the default.
C2_Original ==
    cCall.made =>
        ((cRes.exc = "OasisException") <=> (cCall.required /\ AfterDefault = PyNone))

\* C2 amended: the required-value error is raised exactly when the option is
\* required and has no value on the command line nor in the file, whatever the
\* default; otherwise a value is returned, unless a non-string is looked up
\* as a path.
C2_RequiredError ==
    cCall.made =>
        /\ (cRes.exc = "OasisException") <=>
              (cCall.required /\ ~CmdPresent /\ ~ConfigValuePresent)
        /\ (cRes.exc = "TypeError") =>
              (cCall.is_path /\ AfterDefault.t = "bool")
        /\ cRes.exc \in {"none", "OasisException", "TypeError"}

\* C2 witness: a required lookup with a default fails all the same.
C2_Witness ==
    /\ cCall.made /\ cCall.required
    /\ ~CmdPresent /\ ~ConfigNamePresent
    /\ cCall.default # PyNone
    /\ cRes.exc = "OasisException"

----------------------------------------------------------------------------
(* Claims about GenerateLossesCmd.action, under SpecLosses.                *)

LogHas(op) == \E i \in 1..Len(glLog) : glLog[i].op = op

\* The option values are resolved and the action went on with them.
GLResolved == glPc \notin {"idle", "start"} /\ glVals.exc = "none"

\* path lies in directory dir
InDir(path, dir) ==
    /\ path.abs = dir.abs
    /\ Len(path.parts) > Len(dir.parts)
    /\ SubSeq(path.parts, 1, Len(dir.parts)) = dir.parts

----------------------------------------------------------------------------
(* The keys server's handlers, under SpecServer.                           *)

\* The last request was a POST to get_keys on the route the service registered.
KeysRequestServed ==
    /\ svReq.kind = "get_keys"
    /\ [method |-> "POST", path |-> svReq.path] \in svRoutes

\* The last get_keys request is one that should succeed: a supported content
\* type, a payload that parses, a resolver that yields all its records.
KeysRequestGood ==
    /\ svReq.keys.content_type \in {"csv", "json"}
    /\ svReq.keys.payload_ok
    /\ ~ResolverRaises(svReq.keys)

\* C4: a POST to get_keys whose Content-Type header is missing or is neither
\* the CSV nor the JSON type is answered with a status other than 200 and an
\* empty body, and the resolver is not invoked.
C4_BadContentType ==
    (KeysRequestServed /\ svReq.keys.content_type \notin {"csv", "json"})
        => /\ svResp.status # HTTP_RESPONSE_OK
           /\ svResp.body = EmptyBody
           /\ ~svCalled

\* C5: a get_keys request that fails at any stage (headers, decompression,
\* decoding, parsing, the resolver) is answered with a 5xx status and no body,
\* and never with a partial list of records.
C5_FailureResponse ==
    (KeysRequestServed /\ ~KeysRequestGood)
        => /\ svResp.status \in 500..599
           /\ svResp.body = EmptyBody
           /\ svResp.body.kind # "json"

\* C6: a successful get_keys request is answered with status 200 and a JSON
\* object whose status is 'success' and whose items are the resolver's records
\* for the posted locations, in the resolver's order.
C6_SuccessResponse ==
    (KeysRequestServed /\ KeysRequestGood)
        => /\ svResp.status = HTTP_RESPONSE_OK
           /\ svResp.body = JsonBody("success", svReq.keys.records)
           /\ svCalled

\* C7: a GET of healthcheck under the model's /{supplier}/{model}/{version}
\* prefix is answered with status 200 and the body "OK", whatever the state of
\* the service.
C7_Healthcheck ==
    (svReq.kind = "healthcheck" /\ svReq.path = RoutePath(ModelPrefix, "healthcheck"))
        => /\ svResp.status = HTTP_RESPONSE_OK
           /\ svResp.body = TextBody("OK")

----------------------------------------------------------------------------
(* The model-api test batch, under SpecApi.                                *)

\* The pool has been given its tasks and every one of them has been called.
AllAttempted ==
    /\ Len(apTasks) = apIn.num_analyses
    /\ Len(apTasks) >= 1
    /\ \A i \in 1..Len(apTasks) : apTasks[i] # "queued"

\* C8: when the workers are done, every analysis has been counted once, as
\* completed or as failed: the two counters add up to the number of analyses.
C8_CountersAddUp ==
    AllAttempted => apCounter.completed + apCounter.failed = apIn.num_analyses

\* C9: an error of one analysis is caught inside its worker and counted as
\* failed; it does not end the batch, which always reaches its summary.
C9_ErrorsContained ==
    /\ \A i \in 1..Len(apTasks) : apTasks[i] \in Outcomes \cup {"queued"}
    /\ (AllAttempted /\ apPc \in {"done", "raised"})
          => apPc = "done" /\ apLog[Len(apLog)] = "summary"

\* What the action does after the health check.
AfterHealthOps == {"mkdir", "settings_loaded", "pool_started", "summary"}

ApLogOps == {apLog[i] : i \in 1..Len(apLog)}

\* C10: the health check comes first, with at most the configured number of
\* attempts; every step after it follows an answered attempt, and when no
\* attempt is answered the action ends with OasisException, having made no
\* output directory, loaded no settings and submitted no analysis.
C10_HealthCheckFirst ==
    /\ apTries <= apIn.attempts
    /\ \A i \in 1..Len(apLog) :
          apLog[i] \in AfterHealthOps => \E j \in 1..(i - 1) : apLog[j] = "health_ok"
    /\ apPc \in {"mkdir", "settings", "pool", "map", "done"} => apHealthy
    /\ (apPc \notin {"idle", "start", "health"} /\ ~apHealthy)
          => /\ apPc = "raised"
             /\ apExc = "OasisException"
             /\ apTries = apIn.attempts
             /\ ApLogOps \subseteq {"health_failed"}
             /\ apTasks = <<>>
             /\ apCounter = [completed |-> 0, failed |-> 0]
             /\ apReturn = -1

\* The health check failed after every attempt and the action has raised.
C10_Witness ==
    /\ apPc = "raised"
    /\ apExc = "OasisException"
    /\ apIn.attempts = MaxAttempts
    /\ apTries = MaxAttempts
    /\ ~apIn.out_dir_exists
    /\ apIn.settings_ok
    /\ apIn.num_analyses >= 1


\* C11: each worker of a batch owns its own output directory (and its own
\* upload directory): no two analyses of one batch are handed the same
\* directory to write into.
C11_OwnDirectories ==
    \A i, j \in 1..Len(apTasks) :
        i # j => MapItem(i).output_directory # MapItem(j).output_directory


----------------------------------------------------------------------------
(* The run command, under SpecRun.                                         *)

\* <run_dir>/tmp
RunTmp == Join(rnRunDir, PyStr(FALSE, <<"tmp">>))

GOFResolved == gofPc \notin {"idle", "start"} /\ gofVals.exc = "none"

----------------------------------------------------------------------------
(* The generate-keys command, under SpecKeys.                              *)

\* The output file path given on the command line or, failing that, in the
\* configuration file; None when it is given in neither.
GivenOutputPath ==
    IF gkIn.args["output_file_path"] # PyNone THEN gkIn.args["output_file_path"]
    ELSE IF gkIn.file.content["output_file_path"] \notin {Absent, PyNone}
    THEN gkIn.file.content["output_file_path"]
    ELSE PyNone

\* The output format in effect: the command line's, else the file's, else oasis_keys.
FormatInEffect ==
    IF gkIn.args["output_format"] # PyNone THEN gkIn.args["output_format"]
    ELSE IF gkIn.file.content["output_format"] \notin {Absent, PyNone}
    THEN gkIn.file.content["output_format"]
    ELSE Format("oasis_keys")

UpperChars == {"A", "C", "M", "E", "F", "V"}

\* t is s with its upper-case letters replaced by their lower-case letters
IsLowerOf(t, s) ==
    /\ Len(t) = Len(s)
    /\ \A i \in 1..Len(s) :
          /\ t[i] \notin UpperChars
          /\ s[i] \notin UpperChars => t[i] = s[i]
          /\ s[i] \in UpperChars => LowerChar(s[i]) = t[i]

----------------------------------------------------------------------------
(* The run directory of generate-losses, under SpecLosses.                 *)

\* The steps of the action that write into the run directory after it is prepared.
LaterWrites == {"create_binary_files", "prepare_model_run_inputs", "genbash", "chmod", "run"}

\* C14: after the preparation step the five subdirectories fifo, input, output,
\* static and work exist in the run directory, whether it was there before or
\* is new, and no later step writes into it before that.
C14_SubdirsBeforeWrites ==
    /\ glPc \in {"binary", "settings", "inputs", "script", "chmod", "running", "report", "done"}
          => glDisk.exists /\ CanonicalSubdirs \subseteq glDisk.entries
    /\ \A i \in 1..Len(glLog) :
          glLog[i].op \in LaterWrites =>
              /\ \E j \in 1..(i - 1) : glLog[j].op = "prepare_model_run_directory"
              /\ CanonicalSubdirs \subseteq glDisk.entries
    /\ LogHas("prepare_model_run_directory") => CanonicalSubdirs \subseteq glDisk.entries

\* The action has finished in a run directory that was there before, holding
\* two of the five subdirectories.
C14_Witness ==
    /\ glPc = "done"
    /\ glIn.exists["model_run_dir_path"]
    /\ Truthy(glVals.model_run_dir_path)
    /\ {"earlier_output.csv", "input", "output"} \cup CanonicalSubdirs \subseteq glDisk.entries
    /\ LogHas("create_binary_files")
    /\ LogHas("run")


----------------------------------------------------------------------------
(* The run directory of generate-losses and run, under SpecWorkspace.      *)

\* <cwd>/runs/ProgOasis-<UTC timestamp>
TimestampedRunDir == [t |-> "str", abs |-> TRUE, parts |-> <<"cwd", "runs", "ProgOasis-utcnow">>]

MkdirLogged(log, dir) == \E i \in 1..Len(log) : log[i].op = "mkdir" /\ log[i].path = dir

\* The run directory generate-losses works in is the one provided, made if it
\* was not there, or the timestamped one.
LossesRunDirChosen ==
    glPc \notin {"idle", "start", "mkdir", "raised"} =>
        /\ glDisk.exists
        /\ IF Truthy(glVals.model_run_dir_path)
           THEN /\ glRunDir = glVals.model_run_dir_path
                /\ MkdirLogged(glLog, glRunDir) <=> ~glIn.exists["model_run_dir_path"]
           ELSE /\ glRunDir = TimestampedRunDir
                /\ MkdirLogged(glLog, glRunDir)

\* The same for run.
RunRunDirChosen ==
    rnPc \notin {"idle", "start", "mkdir", "raised"} =>
        /\ glDisk.exists
        /\ IF rnIn.args["model_run_dir_path"] # PyNone
              \/ rnIn.file.content["model_run_dir_path"] # Absent
           THEN /\ rnRunDir # TimestampedRunDir
                /\ MkdirLogged(rnLog, rnRunDir) <=> ~rnIn.run_dir_exists
           ELSE /\ rnRunDir = TimestampedRunDir
                /\ MkdirLogged(rnLog, rnRunDir)

\* A step keeps a run directory that is there, with everything in it.
RunDirKept ==
    glDisk.exists => glDisk'.exists /\ glDisk.entries \subseteq glDisk'.entries

----------------------------------------------------------------------------
(* The analysis settings of generate-losses, under SpecLosses.             *)

\* The settings file is unreadable, not JSON, or lacks the loss toggle.
SettingsMalformed == ~glIn.settings_ok \/ ~glIn.has_toggle

\* C16: malformed analysis settings (unreadable, not valid JSON, or lacking the
\* ground-up-loss/insured-loss toggle) are a fatal error before the script is
\* generated and before any engine process is spawned.
C16_MalformedSettingsFatal ==
    SettingsMalformed =>
        /\ ~LogHas("genbash")
        /\ ~LogHas("run")
        /\ glPc # "done"


----------------------------------------------------------------------------
(* Configuration errors, under SpecRun.                                    *)

\* Every effect of the log is the creation of a directory.
OnlyMkdirs(log) == \A i \in 1..Len(log) : log[i].op = "mkdir"

\* C17: a configuration error (a required option that is missing, a path that
\* is bad) ends generate-keys, generate-oasis-files, generate-losses and run
\* before anything but directories has been made: no file has been copied,
\* converted or written when the error is raised.
C17_ConfigErrorNoEffects ==
    /\ gkVals.exc # "none" => gkLog = <<>>
    /\ gofVals.exc # "none" => OnlyMkdirs(gofLog) /\ OnlyMkdirs(glLog) /\ OnlyMkdirs(rnLog \o gkLog)
    /\ glVals.exc # "none" => OnlyMkdirs(glLog) /\ OnlyMkdirs(gofLog)

\* C18: the number of processes handed to genbash or to run is an integer of
\* at least 1, also when it is not given on the command line.
C18_ParallelismAtLeastOne ==
    \A i \in 1..Len(glLog) : glLog[i].op \in {"genbash", "run"} => glLog[i].n >= 1


\* The first non-zero exit status of the stages that were spawned, 0 when
\* every stage succeeded or none was spawned.
FirstStageFailure ==
    IF \E i \in 1..Len(glLog) : glLog[i].op = "run_failed"
    THEN glLog[CHOOSE i \in 1..Len(glLog) : glLog[i].op = "run_failed"].n
    ELSE 0

\* C19: the exit status reported by generate-losses equals the first non-zero
\* exit status of a spawned stage, and is zero only if every stage succeeded.
C19_ExitStatus ==
    glPc \in {"done", "raised"} /\ LogHas("run") => CommandExitStatus = FirstStageFailure

\* The stages that read a pipe the stage writes
Downstream(plan, s) == {t \in plan.stages : plan.writes[s] \cap plan.reads[t] # {}}

RECURSIVE ReachableFrom(_, _, _)
\* The stages reached from the set S in at most n more steps along the pipes
ReachableFrom(plan, S, n) ==
    IF n = 0 THEN S
    ELSE ReachableFrom(plan, S \cup UNION {Downstream(plan, t) : t \in S}, n - 1)

\* No stage depends, through any number of pipes, on its own output
Acyclic(plan) ==
    \A s \in plan.stages :
        s \notin ReachableFrom(plan, Downstream(plan, s), Cardinality(plan.stages))

ChainsOf(plan, x) ==
    {[mode |-> s.mode, p |-> s.p] : s \in {t \in plan.stages :
        t.kind = "chain" /\ x \in plan.reads[t] \cup plan.writes[t]}}

\* Every plan the generator can make, whatever the number of processes
AllPlans == {genbash(P, il) : P \in 1..MaxProcesses, il \in BOOLEAN}

\* C21: every pipe a launched stage reads or writes has been created before
\* the stage was launched, and a pipe name belongs to one chain: no two pipes
\* of a plan have one name, and a name used in the plans of two different
\* numbers of processes is in both the pipe of the same chain.
C21_PipesBeforeStages ==
    plPc \in {"generated", "running", "done"} =>
        /\ \A s \in plLaunched : plPlan.reads[s] \cup plPlan.writes[s] \subseteq plMade
        /\ plPc = "generated" =>
              /\ \A x, y \in plPlan.pipes : PipeName(x) = PipeName(y) => x = y
              /\ \A x \in plPlan.pipes : Cardinality(ChainsOf(plPlan, x)) = 1
              /\ \A other \in AllPlans : \A x \in plPlan.pipes, y \in other.pipes :
                    PipeName(x) = PipeName(y) => ChainsOf(plPlan, x) = ChainsOf(other, y)

\* Every stage of a plan of several processes is launched, its pipes made
C21_Witness ==
    /\ plPc = "running"
    /\ plIn.P >= 2
    /\ plLaunched = plPlan.stages
    /\ plMade = plPlan.pipes
    /\ plMade # {}

----------------------------------------------------------------------------
(* The keys server after a failed startup, under SpecServer.               *)

\* The last request was answered by a handler of the service.
RequestAccepted ==
    \/ svReq.kind = "healthcheck" /\ [method |-> "GET", path |-> svReq.path] \in svRoutes
    \/ KeysRequestServed

\* C22: when init() has failed at startup, the service accepts no request
\* afterwards: no route is registered and no handler answers a healthcheck or
\* a get_keys request.
C22_FailsClosed ==
    (svPhase # "unloaded" /\ svInitExc # "none")
        => /\ svRoutes = {}
           /\ ~RequestAccepted

\* C23: whatever the startup left, a get_keys request that fails is answered
\* by the handler with a Response object whose status is not 200: the handler
\* does not return None and no exception leaves it.
C23_FailureCaught ==
    (KeysRequestServed /\ (~KeysRequestGood \/ svInitExc # "none"))
        => /\ svRv.kind = "Response"
           /\ svRv.status # HTTP_RESPONSE_OK

\* C24: a request, answered or failed, leaves the module-level state as the
\* startup left it, and its answer is the one the state after startup gives to
\* that request, whatever requests came before.
C24_Stateless ==
    svPhase = "serving" =>
        /\ svG = init(svEnv).g
        /\ svRoutes = RegisteredRoutes(init(svEnv).g)
        /\ KeysRequestServed =>
              /\ svRv = get_keys(init(svEnv).g, svReq.keys).rv
              /\ svResp = FlaskResponse(svRv)
        /\ (svReq.kind = "healthcheck" /\ RequestAccepted) =>
              /\ svRv = healthcheck
              /\ svResp = FlaskResponse(svRv)

\* A compressed get_keys request was handled by the service
C24_Witness ==
    /\ svPhase = "serving"
    /\ KeysRequestServed
    /\ svReq.keys.content_encoding = "gzip"
    /\ svG = init(svEnv).g

----------------------------------------------------------------------------
(* Options set only in the configuration file.                             *)

\* A generate-losses option that the configuration file sets
GLFileSets(name) ==
    /\ glIn.file.exists
    /\ DictHas(glIn.file.content, name)
    /\ glIn.file.content[name] # PyNone

\* C25: a generate-losses option that is not given on the command line and is
\* set in the configuration file has the file's value: with no_execute true in
\* the file only, the engine is not run and the script is only generated.
C25_FileValuesUsed ==
    (GLResolved /\ glVals.exc = "none") =>
        /\ \A n \in {"ktools_script_name", "no_execute"} :
              (glIn.args[n] = GLArgDefault(n) /\ GLFileSets(n))
                  => glVals[n] = glIn.file.content[n]
        /\ (glIn.args["no_execute"] = GLArgDefault("no_execute")
               /\ GLFileSets("no_execute") /\ Truthy(glIn.file.content["no_execute"]))
              => ~LogHas("run")

----------------------------------------------------------------------------
(* Path lookups and the construction of OasisLmfConf, under SpecConf.      *)

\* A value taken relative to the directory of the configuration file: an
\* absolute value as it is, a relative one under that directory, itself under
\* the working directory when it is relative
UnderConfigDir(v) ==
    LET dir == DirName(cObj.conf_path)
    IN  IF v.abs THEN v
        ELSE IF dir.abs THEN PyStr(TRUE, dir.parts \o v.parts)
        ELSE PyStr(TRUE, Cwd \o dir.parts \o v.parts)

\* A lookup with is_path whose value, after the default, is not None
PathLookup ==
    /\ cCall.made
    /\ cCall.is_path
    /\ cRes.exc # "OasisException"
    /\ AfterDefault # PyNone

\* C26 as stated: a lookup with is_path whose value is not None always returns
\* an absolute path: a relative value resolved against the directory of the
\* configuration file, an absolute one unchanged.
C26_Original ==
    PathLookup =>
        /\ cRes.exc = "none"
        /\ cRes.value.t = "str"
        /\ cRes.value.abs
        /\ cRes.value = UnderConfigDir(AfterDefault)

\* C26 amended: a lookup with is_path whose value is a string returns an
\* absolute path, a relative value resolved against the directory of the
\* configuration file and an absolute one unchanged; a value that is neither
\* None nor a string raises TypeError and nothing is returned.
C26_AbsolutePath ==
    PathLookup =>
        /\ AfterDefault.t = "str" =>
              /\ cRes.exc = "none"
              /\ cRes.value.t = "str"
              /\ cRes.value.abs
              /\ cRes.value = UnderConfigDir(AfterDefault)
        /\ AfterDefault.t # "str" => cRes.exc = "TypeError"

\* A relative value from the configuration file is returned as a path under
\* the working directory
C26_Witness ==
    /\ PathLookup
    /\ ~CmdPresent /\ ConfigValuePresent
    /\ ~AfterDefault.abs
    /\ ~DirName(cObj.conf_path).abs
    /\ cRes.exc = "none"
    /\ cRes.value = PyStr(TRUE, Cwd \o AfterDefault.parts)

\* C27: OasisLmfConf built without a conf_path is built without error: its
\* configuration path is the OASIS_LMF_CONFIG_FILE variable or 'oasislmf.json',
\* and with no file at that path its configuration is empty.
C27_NoConfPath ==
    (cObj.exc # "unbuilt" /\ cIn.conf_path = PyNone /\ (cIn.file.exists => cIn.file.json))
        => /\ cObj.exc = "none"
           /\ cObj.conf_path = EnvConfigFile(cIn.env)
           /\ ~cIn.file.exists => cObj.config = EmptyDict

----------------------------------------------------------------------------
(* generate-keys: successes_only, under SpecKeys.                          *)

\* The option values of generate-keys are resolved.
GKResolved == gkPc \notin {"idle", "start"} /\ gkVals.exc = "none"

\* --successes-only is not on the command line: argparse leaves False
SuccessesOnlyNotGiven == gkIn.args["successes_only"] = PyBool(FALSE)

SuccessesOnlyInFile ==
    /\ gkIn.file.exists
    /\ DictHas(gkIn.file.content, "successes_only")
    /\ gkIn.file.content["successes_only"] # PyNone

\* C28: without --successes-only on the command line, key saving is given the
\* successes_only of the configuration file when the file sets it, and True,
\* the default of the lookup, when it does not.
C28_SuccessesOnly ==
    (GKResolved /\ SuccessesOnlyNotGiven) =>
        /\ SuccessesOnlyInFile =>
              gkVals.successes_only = gkIn.file.content["successes_only"]
        /\ ~SuccessesOnlyInFile => gkVals.successes_only = PyBool(TRUE)

----------------------------------------------------------------------------
(* The options of run, under SpecRun.                                      *)

\* The name under which run's command line takes an option that
\* generate-oasis-files looks up
RunOptionFor(name) ==
    IF name = "lookup_package_path" THEN "lookup_package_file_path" ELSE name

\* Every option that generate-oasis-files requires is on run's command line,
\* and every path given exists
RunGivesOasisFilesOptions ==
    /\ \A n \in GOFRequiredNames : DictGet(rnIn.args, RunOptionFor(n)) # PyNone
    /\ \A n \in GOFRequiredNames : rnIn.exists[n]

\* C29: an option given on run's command line reaches generate-oasis-files
\* under the name it looks up: with every required option on the command line
\* no option is reported missing, whatever the configuration file holds.
C29_RunOptionsReach ==
    (gofPc \notin {"idle", "start"} /\ RunGivesOasisFilesOptions)
        => /\ gofVals.exc = "none"
           /\ \A n \in GOFRequiredNames : DictGet(gofIn.args, n) # PyNone

----------------------------------------------------------------------------
(* The return value of the model-api test, under SpecApi.                  *)

\* C30: once the health check has passed and the settings have loaded, the
\* action returns 0 when all the analyses have finished, whatever the
\* counters say: it does not end with an exception.
C30_ReturnsZero ==
    ("settings_loaded" \in ApLogOps /\ AllAttempted /\ apPc \in {"done", "raised"})
        => /\ apPc = "done"
           /\ apReturn = 0
           /\ apExc = "none"

====
